---- MODULE Spec2Model ----
(***************************************************************************)
(* Verification model of the example repository.                           *)
(*                                                                         *)
(* Part 1: the human-in-the-loop confirmation store and the gated tools of *)
(* src/Materials/02_production_hitl.py.  The store is the pair of module   *)
(* globals PENDING_CONFIRMATIONS (a dict token -> record) and              *)
(* CONFIRMED_TOKENS (a set of tokens).  Every function below is a plain    *)
(* synchronous function or an async function without an await in its body, *)
(* so each call is one atomic step of the single-threaded event loop.      *)
(***************************************************************************)
EXTENDS Integers, Sequences, FiniteSets, TLC

\* ---------------------------------------------------------------- bounds
\* Largest set of required capabilities given to the registry.
MaxRequired == 2
\* Number of inputs the user gives the reconnecting conversation before "quit".
MaxTurns == 3
\* Number of server objects the MCP server manager is given.
MaxServers == 3
\* Number of tasks the task manager holds at most.
MaxTasks == 4
\* Number of requests the production server is sent.
MaxRequests == 1
\* Number of uuid4 tokens the model hands out.
MaxTokens == 2
\* Number of times the wall clock is advanced.
MaxTicks == 1
\* Longest confirmed_tokens list a request carries.
MaxCtxTokens == 2

\* ------------------------------------------------------ program constants
\* Default of create_confirmation's ttl_seconds parameter.
ttl_seconds == 300

\* ------------------------------------------------------------ input sets
Users == {"u1", "u2"}
Filenames == {"a.txt", "b.txt"}
Recipients == {"ann@example.com"}
Subjects == {"hello"}
Bodies == {"text"}
\* ttl values given to a direct create_confirmation call.
TtlInputs == {1, ttl_seconds}
\* seconds by which the clock advances between two calls.
TickDeltas == {ttl_seconds}

\* Token strings a caller can send: the uuid4 values (issued or not yet).
Tokens == 1 .. MaxTokens
NoToken == 0

\* Optional[...]: None is the empty sequence, a value v is <<v>>.
None == << >>
Some(v) == << v >>

\* All lists over S of length at most n.
RECURSIVE ListsUpTo(_, _)
ListsUpTo(S, n) ==
    IF n = 0 THEN { << >> }
    ELSE LET shorter == ListsUpTo(S, n - 1)
         IN  shorter \cup { Append(l, x) : l \in { m \in shorter : Len(m) = n - 1 }, x \in S }

CtxTokenLists == ListsUpTo(Tokens, MaxCtxTokens)

\* The arguments dicts and description strings the two gated tools build.
DeleteArgs(filename) == [filename |-> filename]
DeleteDescription(filename) == << "Delete file: ", filename >>
EmailArgs(to, subject, body) == [to |-> to, subject |-> subject, body |-> body]
EmailDescription(to, subject) == << "Send email to ", to, ": ", subject >>

\* (tool_name, arguments, description) triples a direct create_confirmation
\* call is given: one per gated tool.
CreateInputs ==
    { [tool_name |-> "delete_file", arguments |-> DeleteArgs("a.txt"),
       description |-> DeleteDescription("a.txt")] }
    \cup
    { [tool_name |-> "send_email", arguments |-> EmailArgs(t, s, b),
       description |-> EmailDescription(t, s)] : t \in Recipients, s \in Subjects, b \in Bodies }

VARIABLES
    PENDING_CONFIRMATIONS,  \* dict: token -> PendingConfirmation
    CONFIRMED_TOKENS,       \* set of approved tokens
    now,                    \* time.time()
    ticks,                  \* how often the clock has advanced
    nextToken,              \* the next value uuid.uuid4() returns
    last,                   \* the most recent call and what it returned
    approvedEver,           \* history: tokens for which confirm_token returned True
    rejectedExpired,        \* history: tokens confirm_token rejected on the expiry branch
    consumeCount,           \* history: per token, how often consume_confirmation returned its record
    runCount                \* history: per token, how many gated actions ran on it

vars == << PENDING_CONFIRMATIONS, CONFIRMED_TOKENS, now, ticks, nextToken, last,
           approvedEver, rejectedExpired, consumeCount, runCount >>

\* The other programs of the repository.  Each is a script or server of its
\* own; in a specification of one program the variables of the others keep
\* the value NotLoaded.
VARIABLES
    fan,             \* a fan-out coroutine: its branches, the gather future, the caller
    lim,             \* pattern_semaphore: the semaphore and its six tasks
    PROVIDERS,       \* ProviderRegistry.PROVIDERS: name -> ProviderConfig
    clients,         \* ModelFactory._clients: the providers with a cached client
    MOCK_DATABASE,   \* the production server's tables: name -> rows
    request_count,   \* the production server's ctx.request_count
    tasks_db,        \* the task manager's tasks: id -> task
    reply,           \* the most recent registry, table or task call and its outcome
    rc,              \* demo_reconnection: its locals and what it did
    builder,         \* an AgentBuilder and the with_* methods called on it
    mgr              \* an MCPServerManager, its server objects and its last call

NotLoaded == "not loaded"

nonHitl == << fan, lim, PROVIDERS, clients, MOCK_DATABASE, request_count, tasks_db, reply,
             rc, builder, mgr >>

FanOff == fan = NotLoaded
LimOff == lim = NotLoaded
ServicesOff ==
    /\ PROVIDERS = NotLoaded
    /\ clients = NotLoaded
    /\ MOCK_DATABASE = NotLoaded
    /\ request_count = NotLoaded
    /\ tasks_db = NotLoaded
    /\ reply = NotLoaded
ReconnectOff == rc = NotLoaded
BuilderOff == builder = NotLoaded
ManagerOff == mgr = NotLoaded

\* ------------------------------------------------------------ dict helpers
\* del d[k] / d.pop(k)
DictDel(d, k) == [x \in (DOMAIN d) \ {k} |-> d[x]]
\* d[k] = v
DictPut(d, k, v) == [x \in (DOMAIN d) \cup {k} |-> IF x = k THEN v ELSE d[x]]

\* token[:8]: the first eight characters of the uuid string; different
\* tokens can share them.
Prefix8(token) == (token + 1) \div 2

\* ------------------------------------------------------- the store's code
PendingConfirmation(token, tool_name, arguments, description, t, ttl, user_id) ==
    [ token       |-> token,
      action      |-> << tool_name, "_", Prefix8(token) >>,
      tool_name   |-> tool_name,
      arguments   |-> arguments,
      description |-> description,
      created_at  |-> t,
      expires_at  |-> t + ttl,
      user_id     |-> user_id ]

\* Faulty variant of create_confirmation: the ttl argument is ignored and the
\* default lifetime is used.
create_confirmation_default_ttl(P, token, t, user_id, tool_name, arguments, description, ttl) ==
    LET confirmation ==
            PendingConfirmation(token, tool_name, arguments, description, t, ttl_seconds,
                                user_id)
    IN  [ P |-> DictPut(P, token, confirmation), ret |-> confirmation ]

\* create_confirmation: token is the fresh uuid4, t the clock reading.
create_confirmation(P, token, t, user_id, tool_name, arguments, description, ttl) ==
    LET confirmation ==
            PendingConfirmation(token, tool_name, arguments, description, t, ttl, user_id)
    IN  [ P |-> DictPut(P, token, confirmation), ret |-> confirmation ]

\* Faulty variants of confirm_token, used to show that the properties below
\* depend on its code.
\* ... refusing a token that is approved already:
confirm_token_once(P, C, t, token, user_id) ==
    IF token \notin DOMAIN P
    THEN [ P |-> P, C |-> C, ret |-> FALSE, path |-> "missing" ]
    ELSE IF P[token].user_id # user_id
    THEN [ P |-> P, C |-> C, ret |-> FALSE, path |-> "owner" ]
    ELSE IF t > P[token].expires_at
    THEN [ P |-> DictDel(P, token), C |-> C, ret |-> FALSE, path |-> "expired" ]
    ELSE IF token \in C
    THEN [ P |-> P, C |-> C, ret |-> FALSE, path |-> "again" ]
    ELSE [ P |-> P, C |-> C \cup {token}, ret |-> TRUE, path |-> "confirmed" ]

\* ... without the expiry check:
confirm_token_no_expiry(P, C, t, token, user_id) ==
    IF token \notin DOMAIN P
    THEN [ P |-> P, C |-> C, ret |-> FALSE, path |-> "missing" ]
    ELSE IF P[token].user_id # user_id
    THEN [ P |-> P, C |-> C, ret |-> FALSE, path |-> "owner" ]
    ELSE [ P |-> P, C |-> C \cup {token}, ret |-> TRUE, path |-> "confirmed" ]

\* ... expiring a token already at its expires_at (>= for >):
confirm_token_ge(P, C, t, token, user_id) ==
    IF token \notin DOMAIN P
    THEN [ P |-> P, C |-> C, ret |-> FALSE, path |-> "missing" ]
    ELSE IF P[token].user_id # user_id
    THEN [ P |-> P, C |-> C, ret |-> FALSE, path |-> "owner" ]
    ELSE IF t >= P[token].expires_at
    THEN [ P |-> DictDel(P, token), C |-> C, ret |-> FALSE, path |-> "expired" ]
    ELSE [ P |-> P, C |-> C \cup {token}, ret |-> TRUE, path |-> "confirmed" ]

\* ... deleting the record on the ownership failure too:
confirm_token_del_owner(P, C, t, token, user_id) ==
    IF token \notin DOMAIN P
    THEN [ P |-> P, C |-> C, ret |-> FALSE, path |-> "missing" ]
    ELSE IF P[token].user_id # user_id
    THEN [ P |-> DictDel(P, token), C |-> C, ret |-> FALSE, path |-> "owner" ]
    ELSE IF t > P[token].expires_at
    THEN [ P |-> DictDel(P, token), C |-> C, ret |-> FALSE, path |-> "expired" ]
    ELSE [ P |-> P, C |-> C \cup {token}, ret |-> TRUE, path |-> "confirmed" ]

\* ... keeping the record of an expired token:
confirm_token_keep_expired(P, C, t, token, user_id) ==
    IF token \notin DOMAIN P
    THEN [ P |-> P, C |-> C, ret |-> FALSE, path |-> "missing" ]
    ELSE IF P[token].user_id # user_id
    THEN [ P |-> P, C |-> C, ret |-> FALSE, path |-> "owner" ]
    ELSE IF t > P[token].expires_at
    THEN [ P |-> P, C |-> C, ret |-> FALSE, path |-> "expired" ]
    ELSE [ P |-> P, C |-> C \cup {token}, ret |-> TRUE, path |-> "confirmed" ]

\* confirm_token: returns the new store, the boolean result and the return
\* statement taken.
confirm_token(P, C, t, token, user_id) ==
    IF token \notin DOMAIN P
    THEN [ P |-> P, C |-> C, ret |-> FALSE, path |-> "missing" ]
    ELSE IF P[token].user_id # user_id
    THEN [ P |-> P, C |-> C, ret |-> FALSE, path |-> "owner" ]
    ELSE IF t > P[token].expires_at
    THEN [ P |-> DictDel(P, token), C |-> C, ret |-> FALSE, path |-> "expired" ]
    ELSE [ P |-> P, C |-> C \cup {token}, ret |-> TRUE, path |-> "confirmed" ]

is_confirmed(C, token) == token \in C

\* Faulty variants of consume_confirmation.
\* ... returning the record without removing anything:
consume_confirmation_peek(P, C, token) ==
    IF token \in C /\ token \in DOMAIN P
    THEN [ P |-> P, C |-> C, ret |-> Some(P[token]) ]
    ELSE [ P |-> P, C |-> C, ret |-> None ]

\* ... not asking whether the token was confirmed:
consume_confirmation_unconfirmed(P, C, token) ==
    IF token \in DOMAIN P
    THEN [ P |-> DictDel(P, token), C |-> C \ {token}, ret |-> Some(P[token]) ]
    ELSE [ P |-> P, C |-> C \ {token}, ret |-> None ]

\* ... leaving the token in CONFIRMED_TOKENS:
consume_confirmation_stay_confirmed(P, C, token) ==
    IF token \in C
    THEN IF token \in DOMAIN P
         THEN [ P |-> DictDel(P, token), C |-> C, ret |-> Some(P[token]) ]
         ELSE [ P |-> P, C |-> C, ret |-> None ]
    ELSE [ P |-> P, C |-> C, ret |-> None ]

\* consume_confirmation: one-time use of a confirmed token.
consume_confirmation(P, C, token) ==
    IF token \in C
    THEN IF token \in DOMAIN P
         THEN [ P |-> DictDel(P, token), C |-> C \ {token}, ret |-> Some(P[token]) ]
         ELSE [ P |-> P, C |-> C \ {token}, ret |-> None ]
    ELSE [ P |-> P, C |-> C, ret |-> None ]

\* PENDING_CONFIRMATIONS.values() from token k on: a dict iterates in insertion
\* order, which is the order in which the tokens were issued.
RECURSIVE DictValuesFrom(_, _)
DictValuesFrom(d, k) ==
    IF k > MaxTokens THEN << >>
    ELSE (IF k \in DOMAIN d THEN << d[k] >> ELSE << >>) \o DictValuesFrom(d, k + 1)

\* The response model of one pending confirmation.
ConfirmationInfo(c) ==
    [ token |-> c.token, tool_name |-> c.tool_name, description |-> c.description,
      arguments |-> c.arguments ]

\* c for c in values if keep(c), mapped to ConfirmationInfo
RECURSIVE PendingInfos(_, _, _, _)
PendingInfos(values, i, t, user_id) ==
    IF i > Len(values) THEN << >>
    ELSE (IF values[i].user_id = user_id /\ t < values[i].expires_at
          THEN << ConfirmationInfo(values[i]) >> ELSE << >>)
         \o PendingInfos(values, i + 1, t, user_id)

\* Faulty variant of get_pending: the user's expired records are deleted
\* while listing.
get_pending_sweep(P, t, user_id) ==
    [ P |-> [ k \in { x \in DOMAIN P : ~(P[x].user_id = user_id /\ t >= P[x].expires_at) }
                |-> P[k] ],
      ret |-> PendingInfos(DictValuesFrom(P, 1), 1, t, user_id) ]

\* get_pending: the user's records that are not expired yet; the store is
\* only read.
get_pending(P, t, user_id) ==
    [ P |-> P, ret |-> PendingInfos(DictValuesFrom(P, 1), 1, t, user_id) ]

\* The loop "for token in ctx.confirmed_tokens" of a gated tool, from index i:
\* consumes each token in turn and stops at the first record of this tool.
\* consumed collects the tokens whose record a consume call returned.
RECURSIVE ScanConfirmedTokens(_, _, _, _, _, _)
ScanConfirmedTokens(P, C, toks, i, tool_name, consumed) ==
    IF i > Len(toks)
    THEN [ P |-> P, C |-> C, hit |-> None, consumed |-> consumed ]
    ELSE LET r == consume_confirmation(P, C, toks[i])
         IN  IF r.ret # None /\ r.ret[1].tool_name = tool_name
             THEN [ P |-> r.P, C |-> r.C, hit |-> r.ret,
                    consumed |-> consumed \cup {toks[i]} ]
             ELSE ScanConfirmedTokens(r.P, r.C, toks, i + 1, tool_name,
                                      IF r.ret # None THEN consumed \cup {toks[i]}
                                      ELSE consumed)

\* A gated tool: run on a confirmed token of this tool, else ask.
GatedTool(P, C, t, token, ctx_user_id, confirmed_tokens, tool_name, arguments, description) ==
    LET scan == ScanConfirmedTokens(P, C, confirmed_tokens, 1, tool_name, {})
    IN  IF scan.hit # None
        THEN [ P |-> scan.P, C |-> scan.C, result |-> "success",
               hit |-> scan.hit, consumed |-> scan.consumed,
               pending_confirmations |-> << >> ]
        ELSE LET c == create_confirmation(scan.P, token, t, ctx_user_id, tool_name,
                                          arguments, description, ttl_seconds)
             IN  [ P |-> c.P, C |-> scan.C, result |-> "CONFIRMATION_REQUIRED",
                   hit |-> None, consumed |-> scan.consumed,
                   pending_confirmations |-> << c.ret >> ]

delete_file(P, C, t, token, ctx_user_id, confirmed_tokens, filename) ==
    GatedTool(P, C, t, token, ctx_user_id, confirmed_tokens, "delete_file",
              DeleteArgs(filename), DeleteDescription(filename))

send_email(P, C, t, token, ctx_user_id, confirmed_tokens, to, subject, body) ==
    GatedTool(P, C, t, token, ctx_user_id, confirmed_tokens, "send_email",
              EmailArgs(to, subject, body), EmailDescription(to, subject))

\* ------------------------------------------------------------------ state
\* What `last` holds: the most recent call (op, the user it was made for, the
\* tool name and arguments it was given; a direct create_confirmation call
\* also has the ttl it was given, a confirm_token call whether the token was
\* approved already: again), the token it was about (for a gated
\* tool: the token it ran on or the token it created) and its result.  ok is
\* the boolean returned (confirm_token), "a record was returned"
\* (consume_confirmation) or "the action ran and the success string was
\* returned" (gated tools, which return CONFIRMATION_REQUIRED otherwise); rec
\* is the record returned, consumed or created, if any; held says that the
\* token a gated tool ran on was one of the request's confirmed_tokens.
Call(op, user_id, tool_name, arguments, token, ok, rec, held) ==
    [ op |-> op, user_id |-> user_id, tool_name |-> tool_name, arguments |-> arguments,
      token |-> token, ok |-> ok, rec |-> rec, held |-> held ]

NoUser == ""
NoTool == ""
NoArgs == [none |-> TRUE]

GatedOps == {"delete_file", "send_email"}

HitlInit ==
    /\ PENDING_CONFIRMATIONS = << >>
    /\ CONFIRMED_TOKENS = {}
    /\ now = 0
    /\ ticks = 0
    /\ nextToken = 1
    /\ last = Call("init", NoUser, NoTool, NoArgs, NoToken, FALSE, None, FALSE)
    /\ approvedEver = {}
    /\ rejectedExpired = {}
    /\ consumeCount = [t \in Tokens |-> 0]
    /\ runCount = [t \in Tokens |-> 0]

\* time passes between two calls
Tick ==
    /\ ticks < MaxTicks
    /\ \E d \in TickDeltas : now' = now + d
    /\ ticks' = ticks + 1
    /\ last' = Call("tick", NoUser, NoTool, NoArgs, NoToken, FALSE, None, FALSE)
    /\ UNCHANGED << PENDING_CONFIRMATIONS, CONFIRMED_TOKENS, nextToken,
                    approvedEver, rejectedExpired, consumeCount, runCount >>
    /\ UNCHANGED nonHitl

\* a direct call create_confirmation(u, tool_name, arguments, description, ttl)
CreateCall(u, in, ttl) ==
    LET r == create_confirmation(PENDING_CONFIRMATIONS, nextToken, now, u,
                                 in.tool_name, in.arguments, in.description, ttl)
    IN  /\ nextToken <= MaxTokens
        /\ PENDING_CONFIRMATIONS' = r.P
        /\ last' = Call("create_confirmation", u, in.tool_name, in.arguments, nextToken, TRUE,
                        Some(r.ret), FALSE) @@ [ttl |-> ttl]
        /\ nextToken' = nextToken + 1
        /\ UNCHANGED << CONFIRMED_TOKENS, now, ticks, approvedEver, rejectedExpired,
                        consumeCount, runCount >>
        /\ UNCHANGED nonHitl

CreateConfirmation ==
    \E u \in Users, in \in CreateInputs, ttl \in TtlInputs : CreateCall(u, in, ttl)

\* confirm_token(token, u), as the /confirm endpoint calls it
ConfirmCall(token, u) ==
    LET r == confirm_token(PENDING_CONFIRMATIONS, CONFIRMED_TOKENS, now, token, u)
    IN  /\ PENDING_CONFIRMATIONS' = r.P
        /\ CONFIRMED_TOKENS' = r.C
        /\ approvedEver' = IF r.ret THEN approvedEver \cup {token} ELSE approvedEver
        /\ rejectedExpired' = IF r.path = "expired" THEN rejectedExpired \cup {token}
                              ELSE rejectedExpired
        /\ last' = Call("confirm_token", u, NoTool, NoArgs, token, r.ret, None, FALSE)
                   @@ [again |-> is_confirmed(CONFIRMED_TOKENS, token)]
        /\ UNCHANGED << now, ticks, nextToken, consumeCount, runCount >>
        /\ UNCHANGED nonHitl

ConfirmToken ==
    \E token \in Tokens, u \in Users : ConfirmCall(token, u)

\* a direct call consume_confirmation(token)
ConsumeCall(token) ==
    LET r == consume_confirmation(PENDING_CONFIRMATIONS, CONFIRMED_TOKENS, token)
    IN  /\ PENDING_CONFIRMATIONS' = r.P
        /\ CONFIRMED_TOKENS' = r.C
        /\ consumeCount' = IF r.ret # None
                           THEN [consumeCount EXCEPT ![token] = @ + 1]
                           ELSE consumeCount
        /\ last' = Call("consume_confirmation", NoUser, NoTool, NoArgs, token, r.ret # None,
                        r.ret, FALSE)
        /\ UNCHANGED << now, ticks, nextToken, approvedEver, rejectedExpired,
                        runCount >>
        /\ UNCHANGED nonHitl

ConsumeConfirmation ==
    \E token \in Tokens : ConsumeCall(token)

\* The bookkeeping shared by the two gated tool calls: u and toks are the
\* request's user and confirmed_tokens, arguments the call's arguments, r is
\* what the tool did.
ToolCall(op, u, toks, arguments, r) ==
    /\ r.result = "CONFIRMATION_REQUIRED" => nextToken <= MaxTokens
    /\ PENDING_CONFIRMATIONS' = r.P
    /\ CONFIRMED_TOKENS' = r.C
    /\ nextToken' = IF r.result = "success" THEN nextToken ELSE nextToken + 1
    /\ consumeCount' = [t \in Tokens |->
                          IF t \in r.consumed THEN consumeCount[t] + 1 ELSE consumeCount[t]]
    /\ runCount' = IF r.result = "success"
                   THEN [runCount EXCEPT ![r.hit[1].token] = @ + 1]
                   ELSE runCount
    /\ last' = IF r.result = "success"
               THEN Call(op, u, op, arguments, r.hit[1].token, TRUE, r.hit,
                         \E i \in 1 .. Len(toks) : toks[i] = r.hit[1].token)
               ELSE Call(op, u, op, arguments, nextToken, FALSE,
                         Some(r.pending_confirmations[1]), FALSE)
    /\ UNCHANGED << now, ticks, approvedEver, rejectedExpired >>
    /\ UNCHANGED nonHitl

\* the agent calls delete_file(f) in a request of user u carrying toks
DeleteCall(u, toks, f) ==
    ToolCall("delete_file", u, toks, DeleteArgs(f),
             delete_file(PENDING_CONFIRMATIONS, CONFIRMED_TOKENS, now, nextToken, u, toks, f))

DeleteFile ==
    \E u \in Users, toks \in CtxTokenLists, f \in Filenames : DeleteCall(u, toks, f)

\* the agent calls send_email(to, s, b) in a request of user u carrying toks
EmailCall(u, toks, to, s, b) ==
    ToolCall("send_email", u, toks, EmailArgs(to, s, b),
             send_email(PENDING_CONFIRMATIONS, CONFIRMED_TOKENS, now, nextToken, u, toks,
                        to, s, b))

SendEmail ==
    \E u \in Users, toks \in CtxTokenLists, to \in Recipients, s \in Subjects, b \in Bodies :
      EmailCall(u, toks, to, s, b)

\* GET /pending/{u}
PendingCall(u) ==
    LET r == get_pending(PENDING_CONFIRMATIONS, now, u)
    IN  /\ PENDING_CONFIRMATIONS' = r.P
        /\ last' = Call("get_pending", u, NoTool, NoArgs, NoToken, TRUE, r.ret, FALSE)
        /\ UNCHANGED << CONFIRMED_TOKENS, now, ticks, nextToken, approvedEver,
                        rejectedExpired, consumeCount, runCount >>
        /\ UNCHANGED nonHitl

GetPending ==
    \E u \in Users : PendingCall(u)

\* The confirmation server alone.
Init ==
    /\ HitlInit
    /\ FanOff /\ LimOff /\ ServicesOff /\ ReconnectOff /\ BuilderOff /\ ManagerOff

\* The store's interface: any sequence of create_confirmation, confirm_token
\* and consume_confirmation calls, with time passing in between.  A gated
\* tool touches the store only through consume_confirmation and
\* create_confirmation, so its effect on the store is one of these sequences.
Next ==
    \/ Tick
    \/ CreateConfirmation
    \/ ConfirmToken
    \/ ConsumeConfirmation

Spec == Init /\ [][Next]_vars

\* The server within one expiry window: requests run the gated tools (which
\* create the pending records) and users approve through /confirm.  Only
\* confirm_token compares the clock with expires_at; expiry is covered by Spec.
NextTools ==
    \/ ConfirmToken
    \/ DeleteFile
    \/ SendEmail

SpecTools == Init /\ [][NextTools]_vars

\* The store's interface together with the read-only /pending endpoint.
NextPending ==
    \/ Next
    \/ GetPending

SpecPending == Init /\ [][NextPending]_vars


(***************************************************************************)
(* Part 2: fan-out of agent runs awaited together.                         *)
(*   pattern_with_timeout  (src/Materials/01_parallelization_patterns.py)  *)
(*       wait_for(gather(r1, r2, r3), timeout=30.0)                        *)
(*   main                  (src/openai_agents/parallelization.py)          *)
(*       wait_for(gather(r1, r2, r3, return_exceptions=True), timeout=1.0) *)
(*   pattern_handle_errors (src/Materials/01_parallelization_patterns.py)  *)
(*       gather(r1, r2, r3, return_exceptions=True)                        *)
(* gather and wait_for behave as the asyncio documentation states: gather  *)
(* returns the results in the order of the awaitables; without             *)
(* return_exceptions the first exception is propagated at once and the     *)
(* other awaitables keep running; with it exceptions are entries of the    *)
(* result list; when the timeout of wait_for occurs, the awaited gather is *)
(* cancelled, which cancels its unfinished awaitables, and TimeoutError is *)
(* raised.  The timer is disarmed once the awaited future has completed.   *)
(***************************************************************************)
FanCallers == {"pattern_with_timeout", "main", "pattern_handle_errors"}

\* the three Runner.run calls handed to gather, in argument order
Branches == 1 .. 3

has_timeout(caller) == caller \in {"pattern_with_timeout", "main"}
return_exceptions(caller) == caller \in {"main", "pattern_handle_errors"}

\* An entry of the list gather returns: the RunResult of branch i, or the
\* exception branch i raised.
RunResult(i) == [kind |-> "result", of |-> i]
RunError(i) == [kind |-> "exception", of |-> i]

\* What the coroutine prints.
Line(text, i) == [text |-> text, of |-> i]
TimeoutLine == Line("timeout", 0)

\* The first branch in completion order that raised (0: none).
RECURSIVE FirstFailed(_, _, _)
FirstFailed(branch, order, k) ==
    IF k > Len(order) THEN 0
    ELSE IF branch[order[k]] = "failed" THEN order[k]
    ELSE FirstFailed(branch, order, k + 1)

\* The future asyncio.gather(r1, r2, r3, return_exceptions=ret_exc), given the
\* state of its branches and the order in which they finished.
gather(branch, order, ret_exc) ==
    IF ~ret_exc /\ FirstFailed(branch, order, 1) # 0
    THEN [ state |-> "exception", value |-> RunError(FirstFailed(branch, order, 1)) ]
    ELSE IF \A i \in Branches : branch[i] \in {"done", "failed"}
    THEN [ state |-> "result",
           value |-> [ i \in Branches |-> IF branch[i] = "done" THEN RunResult(i)
                                          ELSE RunError(i) ] ]
    ELSE [ state |-> "pending", value |-> None ]

\* print(res.final_output) for the entries from i on: an exception object has
\* no final_output, so the first exception entry raises AttributeError.
RECURSIVE PrintOutputs(_, _, _)
PrintOutputs(value, i, printed) ==
    IF i > Len(value) THEN [ printed |-> printed, raised |-> FALSE ]
    ELSE IF value[i].kind = "exception" THEN [ printed |-> printed, raised |-> TRUE ]
    ELSE PrintOutputs(value, i + 1, Append(printed, Line("output", value[i].of)))

\* the loop of pattern_handle_errors: isinstance(res, Exception) picks the line
RECURSIVE PrintChecked(_, _, _)
PrintChecked(value, i, printed) ==
    IF i > Len(value) THEN [ printed |-> printed, raised |-> FALSE ]
    ELSE PrintChecked(value, i + 1,
                      Append(printed, Line(IF value[i].kind = "exception" THEN "failed"
                                           ELSE "output", i)))

\* The caller's code after its await returned the list value.
handle_results(caller, value) ==
    LET p == IF caller = "pattern_handle_errors" THEN PrintChecked(value, 1, << >>)
             ELSE PrintOutputs(value, 1, << >>)
    IN  [ outcome |-> IF p.raised THEN "raised" ELSE "completed",
          results |-> value, printed |-> p.printed ]

\* The caller resumes from its await with the completed gather future g: a
\* result is bound and handled, an exception of a branch is not caught by
\* `except asyncio.TimeoutError` and leaves the coroutine.
resume(caller, g) ==
    IF g.state = "result" THEN handle_results(caller, g.value)
    ELSE [ outcome |-> "raised", results |-> None, printed |-> << >> ]

\* Faulty variant of wait_for_timeout: what asyncio.wait(..., timeout=) would
\* give: the finished branches' results are handed over, the others run on.
wait_for_timeout_partial(caller, branch) ==
    LET done == [ i \in Branches |-> IF branch[i] = "done" THEN RunResult(i)
                                     ELSE RunError(i) ]
    IN  [ branch |-> branch,
          gather |-> [ state |-> "pending", value |-> None ],
          outcome |-> "timeout",
          results |-> done,
          printed |-> << TimeoutLine >> ]

\* The timeout of wait_for occurs while gather is pending: gather and with it
\* every unfinished branch is cancelled, TimeoutError is raised out of the
\* await (the assignment of the results never happens) and the except clause
\* prints its message.
wait_for_timeout(caller, branch) ==
    [ branch |-> [ i \in Branches |-> IF branch[i] = "running" THEN "cancelled"
                                      ELSE branch[i] ],
      gather |-> [ state |-> "cancelled", value |-> None ],
      outcome |-> "timeout",
      results |-> None,
      printed |-> << TimeoutLine >> ]

nonFan == << vars, lim, PROVIDERS, clients, MOCK_DATABASE, request_count, tasks_db, reply,
            rc, builder, mgr >>

\* The script is loaded and no coroutine runs yet.
FanIdle ==
    [ caller |-> "none",
      branch |-> [ i \in Branches |-> "created" ],
      order |-> << >>,
      gather |-> [ state |-> "pending", value |-> None ],
      outcome |-> "pending",
      results |-> None,
      printed |-> << >>,
      ev |-> "load" ]

FanInit ==
    /\ HitlInit
    /\ fan = FanIdle
    /\ LimOff /\ ServicesOff /\ ReconnectOff /\ BuilderOff /\ ManagerOff

\* one of the three coroutines is called and awaits its gather
FanStart ==
    /\ fan.caller = "none"
    /\ \E c \in FanCallers :
         fan' = [ fan EXCEPT !.caller = c, !.branch = [ i \in Branches |-> "running" ],
                             !.ev = "start" ]
    /\ UNCHANGED nonFan

\* Runner.run of branch i ends with status st ("done": it returned, "failed":
\* it raised); a pending gather looks at its branches.
BranchEnds(i, st) ==
    /\ fan.caller # "none"
    /\ fan.branch[i] = "running"
    /\ LET branch == [ fan.branch EXCEPT ![i] = st ]
           order == Append(fan.order, i)
       IN  fan' = [ fan EXCEPT
                      !.branch = branch,
                      !.order = order,
                      !.gather = IF fan.gather.state = "pending"
                                 THEN gather(branch, order, return_exceptions(fan.caller))
                                 ELSE fan.gather,
                      !.ev = st ]
    /\ UNCHANGED nonFan

BranchReturns == \E i \in Branches : BranchEnds(i, "done")
BranchRaises == \E i \in Branches : BranchEnds(i, "failed")

\* the caller wakes up from its await
FanResume ==
    /\ fan.caller # "none"
    /\ fan.outcome = "pending"
    /\ fan.gather.state \in {"result", "exception"}
    /\ LET r == resume(fan.caller, fan.gather)
       IN  fan' = [ fan EXCEPT !.outcome = r.outcome, !.results = r.results,
                               !.printed = r.printed, !.ev = "resume" ]
    /\ UNCHANGED nonFan

\* the timeout of wait_for occurs
FanTimeout ==
    /\ fan.caller # "none"
    /\ has_timeout(fan.caller)
    /\ fan.outcome = "pending"
    /\ fan.gather.state = "pending"
    /\ LET r == wait_for_timeout(fan.caller, fan.branch)
       IN  fan' = [ fan EXCEPT !.branch = r.branch, !.gather = r.gather,
                               !.outcome = r.outcome, !.results = r.results,
                               !.printed = r.printed, !.ev = "timeout" ]
    /\ UNCHANGED nonFan

NextFan ==
    \/ FanStart
    \/ BranchReturns
    \/ BranchRaises
    \/ FanResume
    \/ FanTimeout

SpecFan == FanInit /\ [][NextFan]_fan

(***************************************************************************)
(* Part 3: pattern_semaphore (src/Materials/01_parallelization_patterns.py)*)
(* gathers one limited_run task per item; each task enters                 *)
(* `async with semaphore`, runs the agent and leaves.  asyncio.Semaphore   *)
(* keeps a counter and a FIFO queue of waiters; a release hands the slot   *)
(* to the first waiter.  gather is called without return_exceptions, and   *)
(* main awaits pattern_semaphore() without a try: a run that raises makes  *)
(* gather, pattern_semaphore and main raise, and asyncio.run then cancels  *)
(* every task that is still pending before it closes the loop.             *)
(***************************************************************************)
items == << "Hello", "World", "AI", "Future", "Code", "Learn" >>
Items == DOMAIN items

\* asyncio.Semaphore(2)
SemaphoreValue == 2

\* semaphore.acquire() by task i: the slot is taken at once when the counter
\* is positive and nobody waits, else the task joins the queue.
acquire(value, waiters, i) ==
    IF value > 0 /\ waiters = << >>
    THEN [ value |-> value - 1, waiters |-> waiters, got |-> TRUE ]
    ELSE [ value |-> value, waiters |-> Append(waiters, i), got |-> FALSE ]

\* semaphore.release(): the counter goes up, and down again for the first
\* waiter, which is woken (woken = 0: nobody waits).
release(value, waiters) ==
    IF waiters = << >>
    THEN [ value |-> value + 1, waiters |-> waiters, woken |-> 0 ]
    ELSE [ value |-> value, waiters |-> Tail(waiters), woken |-> Head(waiters) ]

nonLim == << vars, fan, PROVIDERS, clients, MOCK_DATABASE, request_count, tasks_db, reply,
            rc, builder, mgr >>

\* pattern_semaphore has called gather: six tasks exist, none has run yet.
\* pc of a task: created, waiting (queued at the semaphore), woken (handed a
\* slot, not resumed yet), running (inside Runner.run), finished, failed,
\* cancelled.  ran: the items whose Runner.run was started.
LimInit ==
    /\ HitlInit
    /\ lim = [ pc |-> [ i \in Items |-> "created" ],
               value |-> SemaphoreValue,
               waiters |-> << >>,
               gather |-> "pending",
               loop |-> "running",
               ran |-> {} ]
    /\ FanOff /\ ServicesOff /\ ReconnectOff /\ BuilderOff /\ ManagerOff

\* task i starts: `async with semaphore`
LimEnter(i) ==
    /\ lim.loop = "running"
    /\ lim.pc[i] = "created"
    /\ LET a == acquire(lim.value, lim.waiters, i)
       IN  lim' = [ lim EXCEPT !.value = a.value, !.waiters = a.waiters,
                               !.pc[i] = IF a.got THEN "running" ELSE "waiting",
                               !.ran = IF a.got THEN @ \cup {i} ELSE @ ]
    /\ UNCHANGED nonLim

\* a woken task resumes inside the `async with` and starts its run
LimResume(i) ==
    /\ lim.loop = "running"
    /\ lim.pc[i] = "woken"
    /\ lim' = [ lim EXCEPT !.pc[i] = "running", !.ran = @ \cup {i} ]
    /\ UNCHANGED nonLim

\* Runner.run of task i ends (st = "finished": it returned, "failed": it
\* raised); leaving the `async with` releases the slot either way, and the
\* pending gather takes the first exception or, after the last task, the
\* results.
LimRunEnds(i, st) ==
    /\ lim.loop = "running"
    /\ lim.pc[i] = "running"
    /\ LET r == release(lim.value, lim.waiters)
           pc == [ j \in Items |-> IF j = i THEN st
                                   ELSE IF j = r.woken THEN "woken" ELSE lim.pc[j] ]
       IN  lim' = [ lim EXCEPT
                      !.value = r.value, !.waiters = r.waiters, !.pc = pc,
                      !.gather = IF lim.gather # "pending" THEN lim.gather
                                 ELSE IF st = "failed" THEN "exception"
                                 ELSE IF \A j \in Items : pc[j] = "finished" THEN "result"
                                 ELSE "pending" ]
    /\ UNCHANGED nonLim

LimRunReturns == \E i \in Items : LimRunEnds(i, "finished")
LimRunRaises == \E i \in Items : LimRunEnds(i, "failed")

\* pattern_semaphore resumes from its await; main ends, with the exception if
\* there is one, and asyncio.run cancels what is still pending and closes
\* the loop.  The six tasks were scheduled before gather's callback, so each
\* has taken its first step by then.
LimClose ==
    /\ lim.loop = "running"
    /\ lim.gather # "pending"
    /\ \A j \in Items : lim.pc[j] # "created"
    /\ lim' = [ lim EXCEPT
                  !.loop = "closed",
                  !.waiters = << >>,
                  !.pc = [ j \in Items |-> IF lim.pc[j] \in {"finished", "failed"}
                                           THEN lim.pc[j] ELSE "cancelled" ] ]
    /\ UNCHANGED nonLim

NextLim ==
    \/ \E i \in Items : LimEnter(i)
    \/ \E i \in Items : LimResume(i)
    \/ LimRunReturns
    \/ LimRunRaises
    \/ LimClose

SpecLim == LimInit /\ [][NextLim]_lim

(***************************************************************************)
(* Part 4: the provider registry and model factory of                      *)
(* src/Materials/model_registry.py.  ProviderRegistry.PROVIDERS is a class *)
(* attribute (a dict), ModelFactory._clients the cache of clients.  A      *)
(* Python call either returns a value or raises: Return(v) and             *)
(* Raise(type, about) are the two outcomes.                                *)
(***************************************************************************)
Return(v) == [ raised |-> None, ret |-> Some(v) ]
Raise(type, about) == [ raised |-> Some([ type |-> type, about |-> about ]), ret |-> None ]

\* bool(v) of an Optional[str]: None and "" are false
Truthy(o) == o # None /\ o[1] # ""

ModelCapability ==
    { "chat", "tool_calling", "vision", "streaming", "structured", "web_search",
      "file_search", "code_interpreter" }

ProviderConfig(name, api_key_env, default_model, model_type, capabilities, models, override) ==
    [ name |-> name, api_key_env |-> api_key_env, default_model |-> default_model,
      model_type |-> model_type, capabilities |-> capabilities, models |-> models,
      api_key_override |-> override ]

\* The table as the class body writes it.
ProviderTable ==
    [ openai |->
        ProviderConfig("OpenAI", "OPENAI_API_KEY", "gpt-4o", "responses",
          ModelCapability,
          [ fast |-> "gpt-4o-mini", smart |-> "gpt-4o", reasoning |-> "o1" ], None),
      gemini |->
        ProviderConfig("Google Gemini", "GEMINI_API_KEY", "gemini-2.0-flash",
          "chat_completions",
          { "chat", "tool_calling", "vision", "streaming", "structured" },
          [ fast |-> "gemini-2.0-flash", faster |-> "gemini-2.0-flash-lite",
            smart |-> "gemini-1.5-pro" ], None),
      ollama |->
        ProviderConfig("Ollama (Local)", "OLLAMA_API_KEY", "llama3.2", "chat_completions",
          { "chat", "tool_calling", "streaming" },
          [ fast |-> "llama3.2", smart |-> "llama3.1:70b", code |-> "codellama",
            small |-> "phi3" ], Some("ollama")),
      groq |->
        ProviderConfig("Groq", "GROQ_API_KEY", "llama-3.3-70b-versatile", "chat_completions",
          { "chat", "tool_calling", "vision", "streaming" },
          [ fast |-> "llama-3.1-8b-instant", smart |-> "llama-3.3-70b-versatile",
            vision |-> "llama-3.2-90b-vision-preview" ], None),
      azure |->
        ProviderConfig("Azure OpenAI", "AZURE_OPENAI_API_KEY", "gpt-4o", "chat_completions",
          { "chat", "tool_calling", "vision", "streaming", "structured" },
          [ fast |-> "gpt-4o-mini", smart |-> "gpt-4o" ], None),
      together |->
        ProviderConfig("Together AI", "TOGETHER_API_KEY",
          "meta-llama/Llama-3.3-70B-Instruct-Turbo", "chat_completions",
          { "chat", "tool_calling", "streaming" },
          [ fast |-> "meta-llama/Llama-3.2-3B-Instruct-Turbo",
            smart |-> "meta-llama/Llama-3.3-70B-Instruct-Turbo",
            mixtral |-> "mistralai/Mixtral-8x22B-Instruct-v0.1" ], None),
      anthropic |->
        ProviderConfig("Anthropic Claude", "ANTHROPIC_API_KEY", "claude-sonnet-4-20250514",
          "chat_completions",
          { "chat", "tool_calling", "vision", "streaming" },
          [ fast |-> "claude-haiku-4-20250514", smart |-> "claude-sonnet-4-20250514",
            smartest |-> "claude-opus-4-20250514" ], None),
      lmstudio |->
        ProviderConfig("LM Studio (Local)", "LMSTUDIO_API_KEY", "local-model",
          "chat_completions", { "chat", "streaming" }, << >>, Some("lm-studio")) ]

\* PROVIDERS.keys(): the keys in the order of the class body.
ProviderKeys ==
    << "openai", "gemini", "ollama", "groq", "azure", "together", "anthropic", "lmstudio" >>

\* the elements of seq that are in S, in seq's order
RECURSIVE Keep(_, _, _)
Keep(seq, i, S) ==
    IF i > Len(seq) THEN << >>
    ELSE (IF seq[i] \in S THEN << seq[i] >> ELSE << >>) \o Keep(seq, i + 1, S)

\* ProviderConfig.supports(*caps)
supports(config, caps) == \A cap \in caps : cap \in config.capabilities

\* Faulty variant of get: an unknown name gets the first provider.
get_or_first(P, provider_name) ==
    IF provider_name \notin DOMAIN P
    THEN Return(P[ProviderKeys[1]])
    ELSE Return(P[provider_name])

\* ProviderRegistry.get
get(P, provider_name) ==
    IF provider_name \notin DOMAIN P
    THEN Raise("ValueError", << "Unknown provider", provider_name >>)
    ELSE Return(P[provider_name])

\* ProviderRegistry.list_providers
list_providers(P) == Keep(ProviderKeys, 1, DOMAIN P)

\* ProviderRegistry.find_by_capability(*caps)
find_by_capability(P, caps) ==
    Keep(ProviderKeys, 1, { name \in DOMAIN P : supports(P[name], caps) })

\* ProviderConfig.get_api_key; env_key is what os.getenv(api_key_env) returns.
get_api_key(config, env_key) ==
    IF Truthy(config.api_key_override) THEN Return(config.api_key_override[1])
    ELSE IF ~Truthy(env_key) THEN Raise("ValueError", << "Missing API key", config.api_key_env >>)
    ELSE Return(env_key[1])

\* AsyncOpenAI(base_url=..., api_key=...): the client of a provider
AsyncOpenAI(provider_name, api_key) == [ provider |-> provider_name, api_key |-> api_key ]

\* ModelFactory._get_client: C is the cache; returns the cache and the outcome
get_client(P, C, provider_name, env_key) ==
    IF provider_name \in DOMAIN C THEN [ C |-> C, out |-> Return(C[provider_name]) ]
    ELSE LET config == get(P, provider_name)
         IN  IF config.raised # None THEN [ C |-> C, out |-> config ]
             ELSE LET key == get_api_key(config.ret[1], env_key)
                  IN  IF key.raised # None THEN [ C |-> C, out |-> key ]
                      ELSE LET client == AsyncOpenAI(provider_name, key.ret[1])
                           IN  [ C |-> DictPut(C, provider_name, client),
                                 out |-> Return(client) ]

\* The model object create returns.
Model(config, resolved_model, client) ==
    [ class |-> IF config.model_type = "responses" THEN "OpenAIResponsesModel"
                ELSE "OpenAIChatCompletionsModel",
      model |-> resolved_model, openai_client |-> client ]

\* Faulty variant of create: the alias is looked at before the exact name.
create_alias_first(P, C, provider_name, model_alias, model_name, env_key) ==
    LET config == get(P, provider_name)
    IN  IF config.raised # None THEN [ C |-> C, out |-> config ]
        ELSE LET c == get_client(P, C, provider_name, env_key)
                 models == config.ret[1].models
                 resolved_model ==
                     IF Truthy(model_alias) /\ model_alias[1] \in DOMAIN models
                     THEN models[model_alias[1]]
                     ELSE IF Truthy(model_name) THEN model_name[1]
                     ELSE config.ret[1].default_model
             IN  IF c.out.raised # None THEN c
                 ELSE [ C |-> c.C,
                        out |-> Return(Model(config.ret[1], resolved_model, c.out.ret[1])) ]

\* ModelFactory.create
create(P, C, provider_name, model_alias, model_name, env_key) ==
    LET config == get(P, provider_name)
    IN  IF config.raised # None THEN [ C |-> C, out |-> config ]
        ELSE LET c == get_client(P, C, provider_name, env_key)
                 models == config.ret[1].models
                 resolved_model ==
                     IF Truthy(model_name) THEN model_name[1]
                     ELSE IF Truthy(model_alias) /\ model_alias[1] \in DOMAIN models
                     THEN models[model_alias[1]]
                     ELSE config.ret[1].default_model
             IN  IF c.out.raised # None THEN c
                 ELSE [ C |-> c.C,
                        out |-> Return(Model(config.ret[1], resolved_model, c.out.ret[1])) ]

\* Faulty variant of validate_capabilities: content with any one of the
\* required capabilities.
validate_capabilities_any(P, provider_name, required) ==
    LET config == get(P, provider_name)
    IN  IF config.raised # None THEN config
        ELSE LET missing == required \ config.ret[1].capabilities
             IN  IF missing # {} /\ missing = required
                 THEN Raise("ValueError",
                            [ provider |-> provider_name, missing |-> missing,
                              consider |-> find_by_capability(P, required) ])
                 ELSE Return(None)

\* ModelFactory.validate_capabilities
validate_capabilities(P, provider_name, required) ==
    LET config == get(P, provider_name)
    IN  IF config.raised # None THEN config
        ELSE LET missing == required \ config.ret[1].capabilities
             IN  IF missing # {}
                 THEN Raise("ValueError",
                            [ provider |-> provider_name, missing |-> missing,
                              consider |-> find_by_capability(P, required) ])
                 ELSE Return(None)

(***************************************************************************)
(* Part 5: the table tools of                                              *)
(* src/MCPs/materials/03_production_fastmcp_server.py and the task tools   *)
(* of src/MCPs/task_manager_mcp.py.  A tool returns a str: Text(parts) is  *)
(* a formatted message, Json(v) the text json.dumps(v) of the value v.     *)
(***************************************************************************)
Text(parts) == [ text |-> parts ]
Json(v) == [ json |-> v ]

MockTables ==
    [ users |->
        << [ id |-> 1, name |-> "Alice", email |-> "alice@example.com", role |-> "admin" ],
           [ id |-> 2, name |-> "Bob", email |-> "bob@example.com", role |-> "user" ],
           [ id |-> 3, name |-> "Charlie", email |-> "charlie@example.com",
             role |-> "user" ] >>,
      products |->
        << [ id |-> 1, name |-> "Widget A", price |-> "29.99", stock |-> 100 ],
           [ id |-> 2, name |-> "Widget B", price |-> "49.99", stock |-> 50 ] >>,
      orders |->
        << [ id |-> 1, user_id |-> 1, product_id |-> 1, quantity |-> 2,
             status |-> "completed" ],
           [ id |-> 2, user_id |-> 2, product_id |-> 2, quantity |-> 1,
             status |-> "pending" ] >> ]

\* MOCK_DATABASE.keys()
TableKeys == << "users", "products", "orders" >>

\* the (name, type) pairs of a table's first row, in the row's key order
TableColumns ==
    [ users |-> << << "id", "int" >>, << "name", "str" >>, << "email", "str" >>,
                   << "role", "str" >> >>,
      products |-> << << "id", "int" >>, << "name", "str" >>, << "price", "float" >>,
                      << "stock", "int" >> >>,
      orders |-> << << "id", "int" >>, << "user_id", "int" >>, << "product_id", "int" >>,
                    << "quantity", "int" >>, << "status", "str" >> >> ]

\* QueryInput(table, filters, limit, offset)
QueryInput(table, filters, limit, offset) ==
    [ table |-> table, filters |-> filters, limit |-> limit, offset |-> offset ]

\* the rows matching every filter: row.get(k) == v for all k, v
RECURSIVE Filtered(_, _, _)
Filtered(rows, i, filters) ==
    IF i > Len(rows) THEN << >>
    ELSE (IF \A k \in DOMAIN filters : k \in DOMAIN rows[i] /\ rows[i][k] = filters[k]
          THEN << rows[i] >> ELSE << >>) \o Filtered(rows, i + 1, filters)

\* results[offset:offset + limit]
Slice(rows, offset, limit) ==
    SubSeq(rows, offset + 1, IF offset + limit < Len(rows) THEN offset + limit ELSE Len(rows))

\* the body of query_table
query_table_body(D, input) ==
    IF input.table \notin DOMAIN D
    THEN Return(Text(<< "Error: Table not found", input.table, "Available",
                        Keep(TableKeys, 1, DOMAIN D) >>))
    ELSE LET all == D[input.table]
             results == IF input.filters # None /\ DOMAIN input.filters[1] # {}
                        THEN Filtered(all, 1, input.filters[1]) ELSE all
             page == Slice(results, input.offset, input.limit)
         IN  Return(Json([ table |-> input.table, count |-> Len(page), results |-> page ]))

\* @handle_errors: an exception of the tool becomes an error text
handle_errors(out) ==
    IF out.raised # None THEN Return(Text(<< "Error", out.raised[1].type >>)) ELSE out

\* @log_request: counts the request and passes the outcome on
log_request(n, out) == [ n |-> n + 1, out |-> out ]

\* query_table as registered: @log_request @handle_errors
query_table(D, n, input) ==
    LET r == log_request(n, handle_errors(query_table_body(D, input)))
    IN  [ D |-> D, n |-> r.n, out |-> r.out ]

\* get_table_schema as registered: @log_request
get_table_schema(D, n, table) ==
    LET body ==
            IF table \notin DOMAIN D
            THEN Return(Text(<< "Error: Table not found", table >>))
            ELSE IF D[table] = << >>
            THEN Return(Json([ table |-> table, columns |-> << >> ]))
            ELSE Return(Json([ table |-> table, columns |-> TableColumns[table],
                               row_count |-> Len(D[table]) ]))
        r == log_request(n, body)
    IN  [ D |-> D, n |-> r.n, out |-> r.out ]

\* The "id" of a task is an int in the module body and a str in the tasks
\* create_task adds: the two kinds of value are kept apart.
IntValue(n) == [ int |-> n ]
StrValue(s) == [ string |-> s ]

\* tasks_db as the module body writes it
TaskTable ==
    [ k \in { "1", "2", "3" } |->
        CASE k = "1" -> [ id |-> IntValue(1), title |-> "Learn FastMCP", Status |-> "In Progress",
                          Priority |-> Some("High") ]
          [] k = "2" -> [ id |-> IntValue(2), title |-> "Learn OpenAI SDK", Status |-> "In Progress",
                          Priority |-> Some("High") ]
          [] k = "3" -> [ id |-> IntValue(3), title |-> "Learn Python", Status |-> "Done",
                          Priority |-> None ] ]

\* json.dumps({"error": f"task {task_id} not found"})
TaskNotFound(task_id) == Json([ error |-> << "task not found", task_id >> ])
\* json.dumps({"success": True, "task": task_id})
TaskSuccess(task_id) == Json([ success |-> TRUE, task |-> task_id ])

get_task_by_id(T, task_id) ==
    IF task_id \notin DOMAIN T THEN [ T |-> T, out |-> Return(TaskNotFound(task_id)) ]
    ELSE [ T |-> T, out |-> Return(Json(T[task_id])) ]

\* Faulty variant of update_task_status: an unknown id raises KeyError.
update_task_status_raises(T, task_id, status) ==
    IF task_id \notin DOMAIN T
    THEN [ T |-> T, out |-> Raise("KeyError", << "task", task_id >>) ]
    ELSE [ T |-> [ T EXCEPT ![task_id].Status = status ],
           out |-> Return(TaskSuccess(task_id)) ]

update_task_status(T, task_id, status) ==
    IF task_id \notin DOMAIN T THEN [ T |-> T, out |-> Return(TaskNotFound(task_id)) ]
    ELSE [ T |-> [ T EXCEPT ![task_id].Status = status ],
           out |-> Return(TaskSuccess(task_id)) ]

delete_task(T, task_id) ==
    IF task_id \notin DOMAIN T THEN [ T |-> T, out |-> Return(TaskNotFound(task_id)) ]
    ELSE [ T |-> DictDel(T, task_id), out |-> Return(TaskSuccess(task_id)) ]

\* str(n) of a small natural number
str(n) == << "0", "1", "2", "3", "4", "5", "6", "7", "8", "9" >>[n + 1]

\* create_task: the new id is the number of tasks plus one
create_task(T, title, status, priority) ==
    LET new_id == str(Cardinality(DOMAIN T) + 1)
        new_task == [ id |-> StrValue(new_id), title |-> title, Status |-> status,
                      Priority |-> Some(priority) ]
    IN  [ T |-> DictPut(T, new_id, new_task), out |-> Return(TaskSuccess(new_id)) ]

\* the resource tasks://{task_id}
get_task_resource(T, task_id) ==
    IF task_id \notin DOMAIN T THEN [ T |-> T, out |-> Return(TaskNotFound(task_id)) ]
    ELSE [ T |-> T, out |-> Return(Json(T[task_id])) ]

\* ------------------------------------------------- the services' state
\* What `reply` holds: the most recent call of a registry, factory, table or
\* task operation (its name and arguments) and its outcome, raised or ret.
Reply(op, args, out) ==
    [ op |-> op, args |-> args, raised |-> out.raised, ret |-> out.ret ]

nonServices == << vars, fan, lim, rc, builder, mgr >>

\* the registry module is imported
RegistryLoaded ==
    /\ PROVIDERS = ProviderTable
    /\ clients = << >>
    /\ reply = Reply("load", << >>, Return(None))

RegistryInit ==
    /\ HitlInit
    /\ FanOff
    /\ LimOff
    /\ ReconnectOff /\ BuilderOff /\ ManagerOff
    /\ RegistryLoaded
    /\ MOCK_DATABASE = NotLoaded
    /\ request_count = NotLoaded
    /\ tasks_db = NotLoaded

ServicesInit ==
    /\ HitlInit
    /\ FanOff
    /\ LimOff
    /\ ReconnectOff /\ BuilderOff /\ ManagerOff
    /\ RegistryLoaded
    /\ MOCK_DATABASE = MockTables
    /\ request_count = 0
    /\ tasks_db = TaskTable

\* the inputs
ProviderInputs == DOMAIN ProviderTable \cup { "mistral" }
CreateProviders == { "openai", "ollama", "mistral" }
\* the provider validated when the registry is used next to the two servers
ServiceProviders == { "mistral" }
AliasInputs == { None, Some("fast"), Some("code") }
NameInputs == { None, Some(""), Some("my-model") }
EnvKeys == { None, Some("sk-test") }
RequiredInputs == { caps \in SUBSET ModelCapability : Cardinality(caps) <= MaxRequired }
TableInputs == { "users", "orders", "customers" }
FilterInputs == { None, Some(<< >>), Some([ role |-> "user" ]), Some([ status |-> "pending" ]) }
LimitInputs == { 1, 100 }
OffsetInputs == { 0, 1 }
TaskIdInputs == { "1", "3", "9" }
StatusInputs == { "Done" }

\* a call that leaves the registry and the factory alone
RegistryRead(op, args, out) ==
    /\ reply' = Reply(op, args, out)
    /\ PROVIDERS' = PROVIDERS
    /\ UNCHANGED << clients, MOCK_DATABASE, request_count, tasks_db >>
    /\ UNCHANGED nonServices

Get ==
    \E provider_name \in ProviderInputs :
      RegistryRead("get", [ provider_name |-> provider_name ], get(PROVIDERS, provider_name))

ListProviders ==
    RegistryRead("list_providers", << >>, Return(list_providers(PROVIDERS)))

FindByCapability ==
    \E caps \in RequiredInputs :
      RegistryRead("find_by_capability", [ caps |-> caps ],
                   Return(find_by_capability(PROVIDERS, caps)))

ValidateCapabilitiesOn(providers) ==
    \E provider_name \in providers, required \in RequiredInputs :
      RegistryRead("validate_capabilities",
                   [ provider_name |-> provider_name, required |-> required ],
                   validate_capabilities(PROVIDERS, provider_name, required))

ValidateCapabilities == ValidateCapabilitiesOn(ProviderInputs)

\* ModelFactory.create(provider_name, model_alias, model_name) in an
\* environment where the provider's key variable holds env_key
CreateCallOf(provider_name, model_alias, model_name, env_key) ==
    LET r == create(PROVIDERS, clients, provider_name, model_alias, model_name, env_key)
    IN  /\ clients' = r.C
        /\ PROVIDERS' = PROVIDERS
        /\ reply' = Reply("create",
                          [ provider_name |-> provider_name, model_alias |-> model_alias,
                            model_name |-> model_name, env_key |-> env_key ], r.out)
        /\ UNCHANGED << MOCK_DATABASE, request_count, tasks_db >>
        /\ UNCHANGED nonServices

Create ==
    \E provider_name \in CreateProviders, model_alias \in AliasInputs,
       model_name \in NameInputs, env_key \in EnvKeys :
      CreateCallOf(provider_name, model_alias, model_name, env_key)

\* a call of a table tool
TableCall(op, args, r) ==
    /\ request_count < MaxRequests
    /\ MOCK_DATABASE' = r.D
    /\ request_count' = r.n
    /\ reply' = Reply(op, args, r.out)
    /\ UNCHANGED << PROVIDERS, clients, tasks_db >>
    /\ UNCHANGED nonServices

QueryTable ==
    \E table \in TableInputs, filters \in FilterInputs, limit \in LimitInputs,
       offset \in OffsetInputs :
      LET input == QueryInput(table, filters, limit, offset)
      IN  TableCall("query_table", input, query_table(MOCK_DATABASE, request_count, input))

GetTableSchema ==
    \E table \in TableInputs :
      TableCall("get_table_schema", [ table |-> table ],
                get_table_schema(MOCK_DATABASE, request_count, table))

\* a call of a task tool
TaskCall(op, args, r) ==
    /\ tasks_db' = r.T
    /\ reply' = Reply(op, args, r.out)
    /\ UNCHANGED << PROVIDERS, clients, MOCK_DATABASE, request_count >>
    /\ UNCHANGED nonServices

GetTaskById ==
    \E task_id \in TaskIdInputs :
      TaskCall("get_task_by_id", [ task_id |-> task_id ], get_task_by_id(tasks_db, task_id))

UpdateTaskStatus ==
    \E task_id \in TaskIdInputs, status \in StatusInputs :
      TaskCall("update_task_status", [ task_id |-> task_id, status |-> status ],
               update_task_status(tasks_db, task_id, status))

DeleteTask ==
    \E task_id \in TaskIdInputs :
      TaskCall("delete_task", [ task_id |-> task_id ], delete_task(tasks_db, task_id))

GetTaskResource ==
    \E task_id \in TaskIdInputs :
      TaskCall("get_task_resource", [ task_id |-> task_id ],
               get_task_resource(tasks_db, task_id))

\* the task manager alone
TasksInit ==
    /\ HitlInit
    /\ FanOff
    /\ LimOff
    /\ ReconnectOff /\ BuilderOff /\ ManagerOff
    /\ PROVIDERS = NotLoaded
    /\ clients = NotLoaded
    /\ MOCK_DATABASE = NotLoaded
    /\ request_count = NotLoaded
    /\ tasks_db = TaskTable
    /\ reply = Reply("load", << >>, Return(None))

TitleInputs == { "Write tests" }
PriorityInputs == { "Low" }

CreateTask ==
    /\ Cardinality(DOMAIN tasks_db) < MaxTasks
    /\ \E title \in TitleInputs, status \in StatusInputs, priority \in PriorityInputs :
         TaskCall("create_task", [ title |-> title, status |-> status, priority |-> priority ],
                  create_task(tasks_db, title, status, priority))

tasks == << tasks_db, reply >>

NextTasks ==
    \/ GetTaskById
    \/ CreateTask
    \/ UpdateTaskStatus
    \/ DeleteTask
    \/ GetTaskResource

SpecTasks == TasksInit /\ [][NextTasks]_tasks

registry == << PROVIDERS, clients, reply >>

NextRegistry ==
    \/ Get
    \/ ListProviders
    \/ FindByCapability
    \/ ValidateCapabilities
    \/ Create

\* The registry and the factory, called from outside.
SpecRegistry == RegistryInit /\ [][NextRegistry]_registry

services == << PROVIDERS, clients, MOCK_DATABASE, request_count, tasks_db, reply >>

NextServices ==
    \/ Get
    \/ ValidateCapabilitiesOn(ServiceProviders)
    \/ Create
    \/ QueryTable
    \/ GetTableSchema
    \/ GetTaskById
    \/ UpdateTaskStatus
    \/ DeleteTask
    \/ GetTaskResource

\* The registry, the table server and the task server, each called from
\* outside.
SpecServices == ServicesInit /\ [][NextServices]_services

(***************************************************************************)
(* Part 6: demo_reconnection of src/MCPs/materials/01_advanced_mcp.py.     *)
(* rc holds the coroutine's position (pc), its local retry_count, the      *)
(* number of times `async with server` opened the connection, the          *)
(* arguments of the asyncio.sleep calls so far, the number of inputs read  *)
(* that were not "quit", the input being answered, and the lines printed.  *)
(***************************************************************************)
max_retries == 3

\* Faulty variant of the loop condition: <= for <.
loop_continues_le(retry_count) == retry_count <= max_retries

\* while retry_count < max_retries
loop_continues(retry_count) == retry_count < max_retries

\* 2 ** retry_count
backoff(retry_count) == 2 ^ retry_count

\* Faulty variant of the test after the loop: the failure is reported after
\* any lost connection.
reports_failure_any(retry_count) == retry_count >= 1

\* if retry_count >= max_retries
reports_failure(retry_count) == retry_count >= max_retries

AgentLine(user_input) == [ line |-> "Agent: ", final_output |-> user_input ]
RetryLine(retry_count) ==
    [ line |-> "Connection lost. Retrying", retry_count |-> retry_count,
      max_retries |-> max_retries ]
FailedLine == [ line |-> "Failed to maintain connection" ]

UserInputs == { "quit", "hello", "list the tools" }

nonReconnect ==
    << vars, fan, lim, PROVIDERS, clients, MOCK_DATABASE, request_count, tasks_db, reply,
       builder, mgr >>

ReconnectInit ==
    /\ HitlInit
    /\ FanOff
    /\ LimOff
    /\ ServicesOff
    /\ BuilderOff
    /\ ManagerOff
    /\ rc = [ pc |-> "while", retry_count |-> 0, opens |-> 0, sleeps |-> << >>,
              turns |-> 0, user_input |-> None, out |-> << >> ]

\* except ConnectionError: count the retry and print; the sleep follows
ConnectionLost ==
    [ rc EXCEPT !.pc = "sleep", !.retry_count = @ + 1,
                !.out = Append(@, RetryLine(rc.retry_count + 1)) ]

\* the loop condition
RcWhile ==
    /\ rc.pc = "while"
    /\ rc' = [ rc EXCEPT !.pc = IF loop_continues(rc.retry_count) THEN "connect"
                                ELSE "after" ]
    /\ UNCHANGED nonReconnect

\* async with server: the connection opens, or the attempt fails with
\* ConnectionError or with another exception, which leaves the function
RcConnect ==
    /\ rc.pc = "connect"
    /\ \E outcome \in { "connected", "ConnectionError", "Exception" } :
         rc' = CASE outcome = "connected" -> [ rc EXCEPT !.pc = "input", !.opens = @ + 1 ]
                 [] outcome = "ConnectionError" ->
                      [ ConnectionLost EXCEPT !.opens = @ + 1 ]
                 [] outcome = "Exception" -> [ rc EXCEPT !.pc = "raised", !.opens = @ + 1 ]
    /\ UNCHANGED nonReconnect

\* user_input = input("You: "); "quit" leaves the conversation, the
\* connection is closed and the else clause leaves the retry loop
RcInput ==
    /\ rc.pc = "input"
    /\ \E user_input \in UserInputs :
         IF user_input = "quit"
         THEN rc' = [ rc EXCEPT !.pc = "after" ]
         ELSE /\ rc.turns < MaxTurns
              /\ rc' = [ rc EXCEPT !.pc = "run", !.user_input = Some(user_input),
                                    !.turns = @ + 1 ]
    /\ UNCHANGED nonReconnect

\* await Runner.run(agent, user_input): returns and the answer is printed,
\* or raises
RcRun ==
    /\ rc.pc = "run"
    /\ \E outcome \in { "returned", "ConnectionError", "Exception" } :
         rc' = CASE outcome = "returned" ->
                      [ rc EXCEPT !.pc = "input", !.out = Append(@, AgentLine(rc.user_input[1])) ]
                 [] outcome = "ConnectionError" -> ConnectionLost
                 [] outcome = "Exception" -> [ rc EXCEPT !.pc = "raised" ]
    /\ UNCHANGED nonReconnect

\* await asyncio.sleep(2 ** retry_count)
RcSleep ==
    /\ rc.pc = "sleep"
    /\ rc' = [ rc EXCEPT !.pc = "while", !.sleeps = Append(@, backoff(rc.retry_count)) ]
    /\ UNCHANGED nonReconnect

\* after the loop: if retry_count >= max_retries: print(...)
RcAfter ==
    /\ rc.pc = "after"
    /\ rc' = [ rc EXCEPT !.pc = "done",
                         !.out = IF reports_failure(rc.retry_count)
                                 THEN Append(@, FailedLine) ELSE @ ]
    /\ UNCHANGED nonReconnect

NextReconnect ==
    \/ RcWhile
    \/ RcConnect
    \/ RcInput
    \/ RcRun
    \/ RcSleep
    \/ RcAfter

SpecReconnect == ReconnectInit /\ [][NextReconnect]_rc

\* The event loop keeps running the coroutine, and every await of it and
\* every input() eventually completes.
FairSpecReconnect == SpecReconnect /\ WF_rc(NextReconnect)

(***************************************************************************)
(* Part 7: AgentBuilder of src/Materials/model_registry.py.  builder.obj   *)
(* is the builder object, builder.called the with_* methods called on it   *)
(* so far (kept for the properties only).                                  *)
(***************************************************************************)
\* AgentBuilder()
AgentBuilder ==
    [ name |-> "Agent", instructions |-> "You are a helpful assistant.",
      provider |-> "gemini", model_alias |-> None, model_name |-> None,
      tools |-> << >>, mcp_servers |-> << >>, required_caps |-> { "chat" } ]

\* AgentBuilder.provider(provider, model)
provider(b, provider_name, model_alias) ==
    [ b EXCEPT !.provider = provider_name, !.model_alias = model_alias ]

\* AgentBuilder.model(exact_name)
model(b, exact_name) == [ b EXCEPT !.model_name = Some(exact_name) ]

with_tools(b, tools) ==
    [ b EXCEPT !.tools = tools, !.required_caps = @ \cup { "tool_calling" } ]

\* Faulty variant of with_mcp: the servers are kept, the capability is not
\* required.
with_mcp_no_cap(b, servers) == [ b EXCEPT !.mcp_servers = servers ]

with_mcp(b, servers) ==
    [ b EXCEPT !.mcp_servers = servers, !.required_caps = @ \cup { "tool_calling" } ]

with_vision(b) == [ b EXCEPT !.required_caps = @ \cup { "vision" } ]

with_structured_output(b) == [ b EXCEPT !.required_caps = @ \cup { "structured" } ]

\* Agent(name=..., instructions=..., model=..., tools=..., mcp_servers=...)
Agent(b, m) ==
    [ name |-> b.name, instructions |-> b.instructions, model |-> m, tools |-> b.tools,
      mcp_servers |-> b.mcp_servers ]

\* AgentBuilder.build: validate, then create the model, then the agent
build(P, C, b, env_key) ==
    LET v == validate_capabilities(P, b.provider, b.required_caps)
    IN  IF v.raised # None THEN [ C |-> C, out |-> v ]
        ELSE LET r == create(P, C, b.provider, b.model_alias, b.model_name, env_key)
             IN  IF r.out.raised # None THEN r
                 ELSE [ C |-> r.C, out |-> Return(Agent(b, r.out.ret[1])) ]

nonBuilder ==
    << vars, fan, lim, MOCK_DATABASE, request_count, tasks_db, rc, mgr >>

BuilderInit ==
    /\ HitlInit
    /\ FanOff
    /\ LimOff
    /\ ReconnectOff /\ ManagerOff
    /\ MOCK_DATABASE = NotLoaded
    /\ request_count = NotLoaded
    /\ tasks_db = NotLoaded
    /\ RegistryLoaded
    /\ builder = [ obj |-> AgentBuilder, called |-> {} ]

BuilderProviders == { "openai", "ollama", "lmstudio", "mistral" }
BuilderAliases == { None, Some("fast") }
ToolLists == { << >>, << "get_weather" >> }
ServerLists == { << "FileServer" >> }

\* a builder method other than build
BuilderCall(method, b) ==
    /\ builder' = [ obj |-> b, called |-> builder.called \cup { method } ]
    /\ reply' = Reply(method, << >>, Return(None))
    /\ UNCHANGED << PROVIDERS, clients >>
    /\ UNCHANGED nonBuilder

SetProvider ==
    \E provider_name \in BuilderProviders, model_alias \in BuilderAliases :
      BuilderCall("provider", provider(builder.obj, provider_name, model_alias))

SetModel == BuilderCall("model", model(builder.obj, "my-model"))

WithTools == \E tools \in ToolLists : BuilderCall("with_tools", with_tools(builder.obj, tools))

WithMcp == \E servers \in ServerLists : BuilderCall("with_mcp", with_mcp(builder.obj, servers))

WithVision == BuilderCall("with_vision", with_vision(builder.obj))

WithStructuredOutput ==
    BuilderCall("with_structured_output", with_structured_output(builder.obj))

Build ==
    \E env_key \in EnvKeys :
      LET r == build(PROVIDERS, clients, builder.obj, env_key)
      IN  /\ clients' = r.C
          /\ reply' = Reply("build", [ env_key |-> env_key ], r.out)
          /\ UNCHANGED << PROVIDERS, builder >>
          /\ UNCHANGED nonBuilder

building == << PROVIDERS, clients, reply, builder >>

NextBuilder ==
    \/ SetProvider
    \/ SetModel
    \/ WithTools
    \/ WithMcp
    \/ WithVision
    \/ WithStructuredOutput
    \/ Build

SpecBuilder == BuilderInit /\ [][NextBuilder]_building

(***************************************************************************)
(* Part 8: MCPServerManager of                                             *)
(* src/MCPs/materials/02_practical_mcp_example.py.  mgr.servers and        *)
(* mgr.connected are the manager's two attributes, mgr.order the insertion *)
(* order of the servers dict.  A server object is a number; mgr.live says  *)
(* of each object whether its connect() has succeeded and its cleanup()    *)
(* has not succeeded since.  mgr.last is the most recent call: the objects *)
(* it called connect() or cleanup() on, the outcomes they had and what the *)
(* call returned.  A list built from the connected set has the set's       *)
(* unspecified order and is represented by its elements.                   *)
(***************************************************************************)
ServerNames == { "FileServer", "DatabaseServer" }
Outcomes == { "ok", "Exception" }

\* MCPServerManager()
MCPServerManager == [ servers |-> << >>, order |-> << >>, connected |-> {} ]

\* self.servers[name] = {"type": type, "server": server}
add_server(M, name, type, server) ==
    [ M EXCEPT !.servers = DictPut(@, name, [ type |-> type, server |-> server ]),
               !.order = IF name \in DOMAIN M.servers THEN @ ELSE Append(@, name) ]

add_stdio_server(M, name, server) == add_server(M, name, "stdio", server)
add_sse_server(M, name, server) == add_server(M, name, "sse", server)

\* Faulty variant of connect_all without the try: the first failure leaves
\* the loop and the call.
RECURSIVE connect_all_fail_fast(_, _, _, _, _, _)
connect_all_fail_fast(M, live, outcome, i, connected_servers, attempted) ==
    IF i > Len(M.order)
    THEN [ M |-> M, live |-> live, attempted |-> attempted,
           out |-> Return(connected_servers) ]
    ELSE LET name == M.order[i]
             server == M.servers[name].server
         IN  IF outcome[name] = "ok"
             THEN connect_all_fail_fast([ M EXCEPT !.connected = @ \cup { name } ],
                                        [ live EXCEPT ![server] = TRUE ], outcome, i + 1,
                                        Append(connected_servers, server),
                                        Append(attempted, server))
             ELSE [ M |-> M, live |-> live, attempted |-> Append(attempted, server),
                    out |-> Raise("Exception", name) ]

\* connect_all, from the i-th server of the dict on: outcome says of each
\* name how its server.connect() ends
RECURSIVE connect_all(_, _, _, _, _, _)
connect_all(M, live, outcome, i, connected_servers, attempted) ==
    IF i > Len(M.order)
    THEN [ M |-> M, live |-> live, attempted |-> attempted,
           out |-> Return(connected_servers) ]
    ELSE LET name == M.order[i]
             server == M.servers[name].server
         IN  IF outcome[name] = "ok"
             THEN connect_all([ M EXCEPT !.connected = @ \cup { name } ],
                              [ live EXCEPT ![server] = TRUE ], outcome, i + 1,
                              Append(connected_servers, server), Append(attempted, server))
             ELSE connect_all(M, live, outcome, i + 1, connected_servers,
                              Append(attempted, server))

\* cleanup_all: outcome says of each connected name how the cleanup() of the
\* server registered under it ends
cleanup_all(M, live, outcome) ==
    LET cleaned == { name \in M.connected : outcome[name] = "ok" }
    IN  [ M |-> [ M EXCEPT !.connected = @ \ cleaned ],
          live |-> [ o \in DOMAIN live |->
                       IF \E name \in cleaned : M.servers[name].server = o THEN FALSE
                       ELSE live[o] ],
          attempted |-> { M.servers[name].server : name \in M.connected },
          out |-> Return(None) ]

get_connected_servers(M) == { M.servers[name].server : name \in M.connected }

nonManager ==
    << vars, fan, lim, PROVIDERS, clients, MOCK_DATABASE, request_count, tasks_db, reply, rc,
       builder >>

ManagerCall(op, args, outcome, attempted, out) ==
    [ op |-> op, args |-> args, outcome |-> outcome, attempted |-> attempted,
      raised |-> out.raised, ret |-> out.ret ]

ManagerInit ==
    /\ HitlInit
    /\ FanOff
    /\ LimOff
    /\ ServicesOff
    /\ ReconnectOff /\ BuilderOff
    /\ mgr = [ m |-> MCPServerManager, live |-> << >>,
               last |-> ManagerCall("init", << >>, << >>, << >>, Return(None)) ]

\* add_stdio_server / add_sse_server make a new server object
AddServer(op, name, M) ==
    /\ Len(mgr.live) < MaxServers
    /\ mgr' = [ m |-> M, live |-> Append(mgr.live, FALSE),
                last |-> ManagerCall(op, [ name |-> name ], << >>, << >>, Return(None)) ]
    /\ UNCHANGED nonManager

AddStdioServer ==
    \E name \in ServerNames :
      AddServer("add_stdio_server", name, add_stdio_server(mgr.m, name, Len(mgr.live) + 1))

AddSseServer ==
    \E name \in ServerNames :
      AddServer("add_sse_server", name, add_sse_server(mgr.m, name, Len(mgr.live) + 1))

ConnectAll ==
    \E outcome \in [ DOMAIN mgr.m.servers -> Outcomes ] :
      LET r == connect_all(mgr.m, mgr.live, outcome, 1, << >>, << >>)
      IN  /\ mgr' = [ m |-> r.M, live |-> r.live,
                      last |-> ManagerCall("connect_all", << >>, outcome, r.attempted, r.out) ]
          /\ UNCHANGED nonManager

CleanupAll ==
    \E outcome \in [ mgr.m.connected -> Outcomes ] :
      LET r == cleanup_all(mgr.m, mgr.live, outcome)
      IN  /\ mgr' = [ m |-> r.M, live |-> r.live,
                      last |-> ManagerCall("cleanup_all", << >>, outcome, r.attempted, r.out) ]
          /\ UNCHANGED nonManager

GetConnectedServers ==
    /\ mgr' = [ mgr EXCEPT !.last = ManagerCall("get_connected_servers", << >>, << >>, << >>,
                                               Return(get_connected_servers(mgr.m))) ]
    /\ UNCHANGED nonManager

NextManager ==
    \/ AddStdioServer
    \/ AddSseServer
    \/ ConnectAll
    \/ CleanupAll
    \/ GetConnectedServers

SpecManager == ManagerInit /\ [][NextManager]_mgr

\* ------------------------------------------------------------------ claims
\* Every action writes the call it models into last, so a step whose last'
\* names an operation is a call of that operation on last'.token for
\* last'.user_id with last'.arguments, and last'.ok, last'.rec are its result.
\* In the step properties below the unprimed variables are the store before
\* that call and the primed ones the store after it.
IsCall(op) == last'.op = op

\* The owner u calls confirm_token on a pending record after its expiry.
ExpiredFor(token, u) ==
    /\ token \in DOMAIN PENDING_CONFIRMATIONS
    /\ PENDING_CONFIRMATIONS[token].user_id = u
    /\ now > PENDING_CONFIRMATIONS[token].expires_at

\* C1: consume_confirmation returns a token's record at most once, in any
\* sequence of create_confirmation, confirm_token and consume_confirmation
\* calls; every later consume of that token returns None.
C1_ConsumeAtMostOnce ==
    \A token \in Tokens : consumeCount[token] <= 1

\* C1 witness: a second consume of an already consumed token returned None.
C1_Witness ==
    /\ last.op = "consume_confirmation"
    /\ ~last.ok
    /\ consumeCount[last.token] = 1

\* C4: past a token's expires_at, confirm_token(token, owner) returns False
\* and does not add the token to CONFIRMED_TOKENS; expiry is looked at only
\* when the approval is attempted.
C4_ExpiredNotApproved ==
    [][ (IsCall("confirm_token") /\ ExpiredFor(last'.token, last'.user_id)) =>
          /\ ~last'.ok
          /\ CONFIRMED_TOKENS' = CONFIRMED_TOKENS ]_vars

\* C4 witness: the owner's approval of a never approved token was refused
\* after its expiry.
C4_Witness ==
    /\ last.op = "confirm_token"
    /\ ~last.ok
    /\ last.token \in rejectedExpired
    /\ last.token \notin approvedEver
    /\ last.token \notin CONFIRMED_TOKENS

\* C6, as claimed: a consume_confirmation call after the record's expiry
\* returns None.
C6_ConsumeChecksExpiry ==
    [][ ( /\ IsCall("consume_confirmation")
          /\ last'.token \in DOMAIN PENDING_CONFIRMATIONS
          /\ now > PENDING_CONFIRMATIONS[last'.token].expires_at ) => ~last'.ok ]_vars

\* C7: confirm_token returns False exactly when the token has no pending
\* record, the record belongs to another user, or the time is past expires_at;
\* otherwise it returns True and the token is in CONFIRMED_TOKENS afterwards.
C7_ConfirmResult ==
    [][ IsCall("confirm_token") =>
          LET token == last'.token
              fails == \/ token \notin DOMAIN PENDING_CONFIRMATIONS
                       \/ PENDING_CONFIRMATIONS[token].user_id # last'.user_id
                       \/ now > PENDING_CONFIRMATIONS[token].expires_at
          IN  /\ last'.ok = ~fails
              /\ ~fails => token \in CONFIRMED_TOKENS' ]_vars

\* C7 witness: an approval exactly at expires_at succeeded.
C7_Witness ==
    /\ last.op = "confirm_token"
    /\ last.ok
    /\ last.token \in DOMAIN PENDING_CONFIRMATIONS
    /\ now = PENDING_CONFIRMATIONS[last.token].expires_at
    /\ last.token \in CONFIRMED_TOKENS

\* C8, as claimed: no confirm_token call changes the set of pending records.
C8_ConfirmNeverDeletes ==
    [][ IsCall("confirm_token") =>
          PENDING_CONFIRMATIONS' = PENDING_CONFIRMATIONS ]_vars

\* C8, amended: confirm_token deletes a pending record only on its expiry
\* branch: called by the record's owner after expires_at it deletes exactly
\* that token's record; every other call, successful or failed, leaves the
\* pending records as they were.
C8_ConfirmDeletesOnlyExpired ==
    [][ IsCall("confirm_token") =>
          PENDING_CONFIRMATIONS' =
            IF ExpiredFor(last'.token, last'.user_id)
            THEN DictDel(PENDING_CONFIRMATIONS, last'.token)
            ELSE PENDING_CONFIRMATIONS ]_vars

\* C8 witness: a confirm_token call after expiry deleted its token's record
\* and left another token's record pending.
C8_Witness ==
    /\ last.op = "confirm_token"
    /\ ~last.ok
    /\ last.token \in rejectedExpired
    /\ last.token \notin DOMAIN PENDING_CONFIRMATIONS
    /\ DOMAIN PENDING_CONFIRMATIONS # {}

\* C9: consume_confirmation returns None unless the token was approved by
\* confirm_token before; when it returns a record, that is the record
\* create_confirmation stored for the token (a stored record is never
\* altered, and create_confirmation stores the tool name, arguments and owner
\* it is given), and afterwards the token is neither pending nor confirmed.
C9_ConsumeReturnsStored ==
    [][ /\ IsCall("consume_confirmation") =>
             IF last'.token \in approvedEver /\ last'.ok
             THEN /\ last'.rec = Some(PENDING_CONFIRMATIONS[last'.token])
                  /\ last'.rec[1].token = last'.token
                  /\ last'.token \notin DOMAIN PENDING_CONFIRMATIONS'
                  /\ last'.token \notin CONFIRMED_TOKENS'
             ELSE /\ ~last'.ok
                  /\ last'.rec = None
                  /\ PENDING_CONFIRMATIONS' = PENDING_CONFIRMATIONS
        /\ \A token \in (DOMAIN PENDING_CONFIRMATIONS) \cap (DOMAIN PENDING_CONFIRMATIONS') :
             PENDING_CONFIRMATIONS'[token] = PENDING_CONFIRMATIONS[token]
        /\ IsCall("create_confirmation") =>
             /\ last'.token \notin DOMAIN PENDING_CONFIRMATIONS
             /\ last'.token \in DOMAIN PENDING_CONFIRMATIONS'
             /\ PENDING_CONFIRMATIONS'[last'.token].token = last'.token
             /\ PENDING_CONFIRMATIONS'[last'.token].tool_name = last'.tool_name
             /\ PENDING_CONFIRMATIONS'[last'.token].arguments = last'.arguments
             /\ PENDING_CONFIRMATIONS'[last'.token].user_id = last'.user_id ]_vars

\* C9 witness: a consume returned the record of an approved token, which is
\* gone from both collections.
C9_Witness ==
    /\ last.op = "consume_confirmation"
    /\ last.ok
    /\ last.rec # None
    /\ last.token \in approvedEver
    /\ last.token \notin DOMAIN PENDING_CONFIRMATIONS
    /\ last.token \notin CONFIRMED_TOKENS

\* A token in a terminal state: consumed, or rejected as expired.
Terminal(token) == consumeCount[token] > 0 \/ token \in rejectedExpired

\* C10: the lifecycle only moves forward: once a token was consumed or was
\* rejected as expired, no confirm_token call returns True and no
\* consume_confirmation call returns a record for it.
C10_NoWayBack ==
    [][ ( /\ IsCall("confirm_token") \/ IsCall("consume_confirmation")
          /\ Terminal(last'.token) ) => ~last'.ok ]_vars

\* C10 witness: a token approved in time and later rejected as expired was
\* given to consume_confirmation, which returned None.
C10_Witness ==
    /\ last.op = "consume_confirmation"
    /\ ~last.ok
    /\ last.token \in approvedEver
    /\ last.token \in rejectedExpired

\* C11: create_confirmation(user, tool, arguments, description, ttl) inserts
\* exactly one record, under a token that was not in the store, whose user_id,
\* tool name and arguments are the ones given and whose expires_at is
\* created_at + ttl; every other pending record and CONFIRMED_TOKENS stay as
\* they were.
C11_CreateFrame ==
    [][ IsCall("create_confirmation") =>
          LET token == last'.token
          IN  /\ token \notin DOMAIN PENDING_CONFIRMATIONS
              /\ DOMAIN PENDING_CONFIRMATIONS' = (DOMAIN PENDING_CONFIRMATIONS) \cup {token}
              /\ \A other \in DOMAIN PENDING_CONFIRMATIONS :
                    PENDING_CONFIRMATIONS'[other] = PENDING_CONFIRMATIONS[other]
              /\ PENDING_CONFIRMATIONS'[token].token = token
              /\ PENDING_CONFIRMATIONS'[token].user_id = last'.user_id
              /\ PENDING_CONFIRMATIONS'[token].tool_name = last'.tool_name
              /\ PENDING_CONFIRMATIONS'[token].arguments = last'.arguments
              /\ PENDING_CONFIRMATIONS'[token].created_at = now
              /\ PENDING_CONFIRMATIONS'[token].expires_at =
                    PENDING_CONFIRMATIONS'[token].created_at + last'.ttl
              /\ last'.rec = Some(PENDING_CONFIRMATIONS'[token])
              /\ CONFIRMED_TOKENS' = CONFIRMED_TOKENS ]_vars

\* C11 witness: a create_confirmation call with a ttl other than the default
\* added a record while an approved record of another token was pending.
C11_Witness ==
    /\ last.op = "create_confirmation"
    /\ last.ttl # ttl_seconds
    /\ last.token \in DOMAIN PENDING_CONFIRMATIONS
    /\ PENDING_CONFIRMATIONS[last.token].expires_at = now + last.ttl
    /\ \E other \in CONFIRMED_TOKENS \cap DOMAIN PENDING_CONFIRMATIONS : other # last.token

\* C12: expired records are never swept.  A pending record leaves the store
\* only in a confirm_token or consume_confirmation call on its own token; the
\* passing of time, get_pending and every operation on another token leave
\* it where it is, expired or not.
C12_NoSweep ==
    [][ IF IsCall("confirm_token") \/ IsCall("consume_confirmation")
        THEN PENDING_CONFIRMATIONS' \in
               { PENDING_CONFIRMATIONS, DictDel(PENDING_CONFIRMATIONS, last'.token) }
        ELSE \A token \in DOMAIN PENDING_CONFIRMATIONS :
               /\ token \in DOMAIN PENDING_CONFIRMATIONS'
               /\ PENDING_CONFIRMATIONS'[token] = PENDING_CONFIRMATIONS[token] ]_vars

\* C12 witness: get_pending of the owner left out an expired record, which is
\* still in the store after it.
C12_Witness ==
    /\ last.op = "get_pending"
    /\ last.rec = << >>
    /\ \E token \in DOMAIN PENDING_CONFIRMATIONS :
          /\ PENDING_CONFIRMATIONS[token].user_id = last.user_id
          /\ now > PENDING_CONFIRMATIONS[token].expires_at

\* ---- the gated tools (SpecTools)

\* C3: delete_file and send_email perform their action only when the call's
\* confirmed_tokens holds a token that was approved through confirm_token and
\* is not consumed yet (they run on that token); in every other case they
\* create a new pending confirmation and return CONFIRMATION_REQUIRED
\* without performing the action.
C3_GatedByApproval ==
    [][ (IsCall("delete_file") \/ IsCall("send_email")) =>
          IF last'.ok
          THEN /\ last'.held
               /\ last'.token \in approvedEver
               /\ consumeCount[last'.token] = 0
               /\ runCount' = [runCount EXCEPT ![last'.token] = @ + 1]
          ELSE /\ runCount' = runCount
               /\ last'.token \notin DOMAIN PENDING_CONFIRMATIONS
               /\ last'.token \in DOMAIN PENDING_CONFIRMATIONS'
               /\ last'.token \notin CONFIRMED_TOKENS'
               /\ last'.rec = Some(PENDING_CONFIRMATIONS'[last'.token])
               /\ last'.rec[1].tool_name = last'.op ]_vars

\* C3 witness: a gated tool ran on an approved token.
C3_Witness ==
    /\ last.op \in GatedOps
    /\ last.ok
    /\ last.held
    /\ last.token \in approvedEver
    /\ runCount[last.token] = 1

\* Tokens of other users are neither consumed nor run on by a request of u.
ForeignUntouched(u) ==
    \A t \in DOMAIN PENDING_CONFIRMATIONS :
      PENDING_CONFIRMATIONS[t].user_id # u =>
        /\ consumeCount'[t] = consumeCount[t]
        /\ runCount'[t] = runCount[t]
        /\ t \in DOMAIN PENDING_CONFIRMATIONS'

\* C2, as claimed: a token created for user A is not approved by user B
\* (confirm_token returns False and approves nothing), and a gated tool call
\* in B's request carrying A's approved token neither consumes it nor runs.
C2_OwnerOnly ==
    [][ /\ ( /\ IsCall("confirm_token")
             /\ last'.token \in DOMAIN PENDING_CONFIRMATIONS
             /\ PENDING_CONFIRMATIONS[last'.token].user_id # last'.user_id ) =>
             (~last'.ok /\ CONFIRMED_TOKENS' = CONFIRMED_TOKENS)
        /\ (IsCall("delete_file") \/ IsCall("send_email")) =>
             ForeignUntouched(last'.user_id) ]_vars

\* C5, as claimed: a gated tool that runs on an approved token runs the
\* action recorded for it: the call's tool name and arguments are those of
\* the consumed record, and one token runs one action.
C5_RunsRecordedAction ==
    (last.op \in GatedOps /\ last.ok) =>
      /\ last.rec[1].tool_name = last.op
      /\ last.rec[1].arguments = last.arguments
      /\ runCount[last.token] = 1

\* ---- fan-out (SpecFan)

C14_ErrorTolerant ==
    [][ /\ (return_exceptions(fan.caller) /\ fan'.ev = "failed") =>
             /\ \A i \in Branches :
                  fan'.branch[i] # fan.branch[i] => fan'.branch[i] = "failed"
             /\ fan'.gather.state # "exception"
        /\ (return_exceptions(fan.caller) /\ fan'.ev = "resume") =>
             /\ DOMAIN fan'.results = Branches
             /\ \A i \in Branches :
                  /\ fan'.results[i].of = i
                  /\ fan'.results[i].kind = "exception" <=> fan.branch[i] = "failed"
             /\ fan'.outcome = "completed"
             /\ Len(fan'.printed) = Len(fan'.results)
             /\ \A i \in Branches :
                  /\ fan'.printed[i].of = i
                  /\ fan'.printed[i].text = "failed" <=> fan.branch[i] = "failed" ]_fan

\* ---- pattern_semaphore (SpecLim)

\* The runs in flight.
InFlight == { i \in Items : lim.pc[i] = "running" }

\* C15, as claimed: under every interleaving of the six tasks at most two
\* agent runs are in flight, and every item is run when every run ends: by
\* the time the script's event loop is closed, all six items have been run.
C15_CappedAndComplete ==
    /\ Cardinality(InFlight) <= SemaphoreValue
    /\ lim.loop = "closed" => lim.ran = Items

\* C16: ModelFactory.create resolves the model name in this order: the exact
\* model name if one is given (a non-empty model_name), otherwise the alias
\* looked up in the provider's alias table, otherwise the provider's default
\* model; an alias that is not in the table resolves to the default model.
C16_ResolutionOrder ==
    (reply.op = "create" /\ reply.raised = None) =>
      LET a == reply.args
          config == ProviderTable[a.provider_name]
          given == a.model_name # None /\ a.model_name[1] # ""
          known == a.model_alias # None /\ a.model_alias[1] \in DOMAIN config.models
      IN  /\ given => reply.ret[1].model = a.model_name[1]
          /\ (~given /\ known) => reply.ret[1].model = config.models[a.model_alias[1]]
          /\ (~given /\ ~known) => reply.ret[1].model = config.default_model

\* create was given an exact name and an alias of the table, and took the name
C16_Witness ==
    /\ reply.op = "create"
    /\ reply.raised = None
    /\ reply.args.model_name = Some("my-model")
    /\ reply.args.model_alias = Some("fast")
    /\ reply.ret[1].model = "my-model"

\* C17: validate_capabilities(provider, required) on a registered provider
\* fails if and only if required is not a subset of the provider's declared
\* capabilities, and the failure names exactly the required capabilities the
\* provider does not declare; for every provider name it succeeds exactly
\* when the name is in find_by_capability(required).
C17_ValidateCapabilities ==
    reply.op = "validate_capabilities" =>
      LET a == reply.args
          failed == reply.raised # None
          found == find_by_capability(PROVIDERS, a.required)
      IN  /\ a.provider_name \in DOMAIN PROVIDERS =>
               LET declared == PROVIDERS[a.provider_name].capabilities
               IN  /\ failed <=> ~(a.required \subseteq declared)
                   /\ failed => /\ reply.raised[1].type = "ValueError"
                                /\ reply.raised[1].about.provider = a.provider_name
                                /\ reply.raised[1].about.missing = a.required \ declared
          /\ ~failed <=> \E i \in 1 .. Len(found) : found[i] = a.provider_name

\* a failed validation of two capabilities of which the provider declares one
C17_Witness ==
    /\ reply.op = "validate_capabilities"
    /\ reply.args.provider_name = "ollama"
    /\ reply.args.required = { "chat", "vision" }
    /\ reply.raised # None
    /\ reply.raised[1].about.missing = { "vision" }

\* C18: ProviderRegistry.get(name) returns the configuration registered under
\* name when name is a registered provider and fails with an unknown-provider
\* error otherwise, and no registry or factory operation (get,
\* list_providers, find_by_capability, create, validate_capabilities) ever
\* changes the provider table.
C18_GetAndStaticTable ==
    [][ /\ reply'.op \in { "get", "list_providers", "find_by_capability", "create",
                           "validate_capabilities" }
        /\ PROVIDERS' = PROVIDERS
        /\ reply'.op = "get" =>
             LET name == reply'.args.provider_name
             IN  IF name \in DOMAIN PROVIDERS
                 THEN reply'.raised = None /\ reply'.ret = Some(PROVIDERS[name])
                 ELSE /\ reply'.ret = None
                      /\ reply'.raised # None
                      /\ reply'.raised[1].type = "ValueError"
                      /\ reply'.raised[1].about = << "Unknown provider", name >> ]_registry

\* get failed on an unknown name after the factory had built a client, and
\* the table is the one the class body wrote
C18_Witness ==
    /\ reply.op = "get"
    /\ reply.args.provider_name = "mistral"
    /\ reply.raised # None
    /\ clients # << >>
    /\ PROVIDERS = ProviderTable

\* The call recorded in reply' was given a name its data does not hold: an
\* unknown table, an unknown provider or an unknown task id.
UnknownTable ==
    /\ reply'.op \in { "query_table", "get_table_schema" }
    /\ reply'.args.table \notin DOMAIN MOCK_DATABASE
UnknownProvider ==
    /\ reply'.op \in { "get", "create", "validate_capabilities" }
    /\ reply'.args.provider_name \notin DOMAIN PROVIDERS
UnknownTask ==
    /\ reply'.op \in { "get_task_by_id", "update_task_status", "delete_task",
                       "get_task_resource" }
    /\ reply'.args.task_id \notin DOMAIN tasks_db

\* The call returned an error string that names `about`.
ReturnedError(about) ==
    /\ reply'.raised = None
    /\ reply'.ret # None
    /\ \/ /\ "text" \in DOMAIN reply'.ret[1]
          /\ \E k \in DOMAIN reply'.ret[1].text : reply'.ret[1].text[k] = about
       \/ /\ "json" \in DOMAIN reply'.ret[1]
          /\ "error" \in DOMAIN reply'.ret[1].json
          /\ reply'.ret[1].json.error[2] = about

\* The call raised ValueError("Unknown provider: ...").
RaisedUnknownProvider ==
    /\ reply'.ret = None
    /\ reply'.raised # None
    /\ reply'.raised[1].type = "ValueError"
    /\ reply'.raised[1].about = << "Unknown provider", reply'.args.provider_name >>

DataUnchanged ==
    /\ MOCK_DATABASE' = MOCK_DATABASE
    /\ tasks_db' = tasks_db
    /\ PROVIDERS' = PROVIDERS
    /\ clients' = clients

\* C19: validation failures (an unknown table given to query_table or
\* get_table_schema, an unknown provider given to the registry or model
\* factory, an unknown task id given to the task tools) are reported to the
\* caller as a returned descriptive error string, not as a raised exception,
\* and leave the underlying data unchanged.
C19_ValidationReturned ==
    [][ /\ UnknownTable => ReturnedError(reply'.args.table) /\ DataUnchanged
        /\ UnknownProvider => ReturnedError(reply'.args.provider_name) /\ DataUnchanged
        /\ UnknownTask => ReturnedError(reply'.args.task_id) /\ DataUnchanged ]_services

\* C19, amended: an unknown table and an unknown task id are reported as a
\* returned error string that names them; an unknown provider is reported by
\* raising ValueError("Unknown provider: ..."); each of the three leaves the
\* tables, the tasks, the provider table and the client cache unchanged.
C19_ValidationReported ==
    [][ /\ UnknownTable => ReturnedError(reply'.args.table) /\ DataUnchanged
        /\ UnknownProvider => RaisedUnknownProvider /\ DataUnchanged
        /\ UnknownTask => ReturnedError(reply'.args.task_id) /\ DataUnchanged ]_services

\* update_task_status was given an unknown id after the tasks had been
\* changed, and returned the not-found text
C19_Witness ==
    /\ reply.op = "update_task_status"
    /\ reply.args.task_id = "9"
    /\ reply.raised = None
    /\ reply.ret = Some(TaskNotFound("9"))
    /\ tasks_db # TaskTable
    /\ clients # << >>

\* C20: the reconnect loop in demo_reconnection is bounded: it opens the
\* connection at most 3 times in total, waits 2, 4, then 8 seconds after the
\* first, second and third ConnectionError respectively, and terminates
\* (given the user eventually quits or the connection keeps failing).
C20_BoundedReconnect ==
    /\ [](/\ rc.opens <= 3
          /\ Len(rc.sleeps) <= 3
          /\ \A k \in 1 .. Len(rc.sleeps) : rc.sleeps[k] = << 2, 4, 8 >>[k]
          /\ Len(rc.sleeps) \in { rc.retry_count, rc.retry_count - 1 })
    /\ <>(rc.pc \in { "done", "raised" })

\* the connection failed three times: three opens, waits of 2, 4 and 8
\* seconds, and the function ended
C20_Witness ==
    /\ rc.pc = "done"
    /\ rc.retry_count = 3
    /\ rc.opens = 3
    /\ rc.sleeps = << 2, 4, 8 >>
    /\ rc.turns > 0

\* C24, as claimed: an approved token is consumed only by a call of the tool
\* it was approved for: a delete_file call that is given an approved
\* send_email token (or the reverse) leaves that token approved and its
\* record in place, still usable by the tool it belongs to.
C24_ConsumedByOwnToolOnly ==
    [][ (IsCall("delete_file") \/ IsCall("send_email")) =>
          \A token \in CONFIRMED_TOKENS :
            ( /\ token \in DOMAIN PENDING_CONFIRMATIONS
              /\ PENDING_CONFIRMATIONS[token].tool_name # last'.op ) =>
              /\ token \in CONFIRMED_TOKENS'
              /\ token \in DOMAIN PENDING_CONFIRMATIONS'
              /\ PENDING_CONFIRMATIONS'[token] = PENDING_CONFIRMATIONS[token]
              /\ consumeCount'[token] = consumeCount[token] ]_vars

\* C25, as claimed: in every reachable state of the confirmation store, every
\* token in the approved set CONFIRMED_TOKENS has a record in
\* PENDING_CONFIRMATIONS.
C25_ApprovedHaveRecord ==
    \A token \in CONFIRMED_TOKENS : token \in DOMAIN PENDING_CONFIRMATIONS

\* the tokens get_pending(user_id) lists at time t
Listed(t, user_id) ==
    LET infos == get_pending(PENDING_CONFIRMATIONS, t, user_id).ret
    IN  { infos[k].token : k \in DOMAIN infos }

\* C26, as claimed: at any time and for any user u, the tokens listed by
\* get_pending(u) are exactly the tokens for which confirm_token(token, u)
\* would succeed at that time.
C26_ListedIffApprovable ==
    \A u \in Users, token \in Tokens :
      token \in Listed(now, u) <=>
        confirm_token(PENDING_CONFIRMATIONS, CONFIRMED_TOKENS, now, token, u).ret

\* C27: approval is idempotent: a confirm_token(token, owner) call on a token
\* that is approved already, before its expiry, returns True again and leaves
\* the store as the first call left it, and two approvals of one token still
\* permit only one successful consume.
C27_ApprovalIdempotent ==
    /\ [][ ( /\ IsCall("confirm_token")
             /\ last'.token \in CONFIRMED_TOKENS
             /\ last'.token \in DOMAIN PENDING_CONFIRMATIONS
             /\ PENDING_CONFIRMATIONS[last'.token].user_id = last'.user_id
             /\ now < PENDING_CONFIRMATIONS[last'.token].expires_at ) =>
             /\ last'.ok
             /\ PENDING_CONFIRMATIONS' = PENDING_CONFIRMATIONS
             /\ CONFIRMED_TOKENS' = CONFIRMED_TOKENS ]_vars
    /\ [][ (IsCall("consume_confirmation") /\ last'.ok) =>
             /\ consumeCount[last'.token] = 0
             /\ last'.token \notin CONFIRMED_TOKENS' ]_vars

\* a second approval of a token returned True
C27_Witness ==
    /\ last.op = "confirm_token"
    /\ last.ok
    /\ last.again
    /\ last.token \in CONFIRMED_TOKENS

\* "Failed to maintain connection" has been printed
Reported == \E k \in DOMAIN rc.out : rc.out[k].line = FailedLine.line
\* the ConnectionErrors caught so far: each printed its retry line
Errors == Cardinality({ k \in DOMAIN rc.out : rc.out[k].line = RetryLine(0).line })

\* C30: demo_reconnection reports "Failed to maintain connection" if and only
\* if the loop ended because three ConnectionErrors occurred over the whole
\* run (the retry counter is never reset by a successful reconnection); a
\* clean exit by the user never reports failure and never triggers another
\* connection attempt.
C30_FailureReported ==
    /\ [](/\ rc.retry_count = Errors
          /\ Reported => (rc.pc = "done" /\ Errors = 3)
          /\ (rc.pc = "done" /\ Errors = 3) => Reported)
    /\ [][ /\ rc'.retry_count >= rc.retry_count
           /\ (rc.pc = "input" /\ rc'.pc = "after") => rc.retry_count < 3
           /\ rc.pc = "after" => (rc'.pc = "done" /\ rc'.opens = rc.opens)
           /\ (rc.pc = "after" /\ rc.retry_count < 3) => ~Reported' ]_rc

\* the failure was reported although the connection had been re-established
\* and had answered in between
C30_Witness ==
    /\ rc.pc = "done"
    /\ Reported
    /\ \E j, k \in DOMAIN rc.out :
         /\ j < k
         /\ rc.out[j].line = RetryLine(0).line
         /\ rc.out[k].line = AgentLine("").line

\* C28, as claimed: create_task never overwrites an existing task: a
\* create_task call adds a task under an id not currently in tasks_db, so the
\* task count grows by one and every previously stored task is unchanged.
C28_CreateNeverOverwrites ==
    [][ reply'.op = "create_task" =>
          /\ reply'.ret[1].json.task \notin DOMAIN tasks_db
          /\ Cardinality(DOMAIN tasks_db') = Cardinality(DOMAIN tasks_db) + 1
          /\ \A k \in DOMAIN tasks_db :
               k \in DOMAIN tasks_db' /\ tasks_db'[k] = tasks_db[k] ]_tasks

\* C21, as claimed: no failure is fatal: in a script's main routine a failed
\* fan-out branch is caught and the script exits cleanly; main() never ends
\* with an exception that nothing handled.
C21_NoFatalFailure ==
    fan.caller = "main" => fan.outcome # "raised"

\* the capabilities the builder calls required, from the methods called
Required ==
    { "chat" }
    \cup (IF builder.called \cap { "with_tools", "with_mcp" } # {} THEN { "tool_calling" } ELSE {})
    \cup (IF "with_vision" \in builder.called THEN { "vision" } ELSE {})
    \cup (IF "with_structured_output" \in builder.called THEN { "structured" } ELSE {})

\* the selected provider declares every required capability
Declared ==
    /\ builder.obj.provider \in DOMAIN PROVIDERS
    /\ Required \subseteq PROVIDERS[builder.obj.provider].capabilities

\* C22: AgentBuilder.build() returns an agent only if the selected provider
\* declares every capability the builder calls required (CHAT always,
\* TOOL_CALLING after with_tools or with_mcp, VISION after with_vision,
\* STRUCTURED_OUTPUT after with_structured_output), for any order of builder
\* calls; otherwise it fails before any model or client is created.
C22_BuildValidates ==
    [][ reply'.op = "build" =>
          /\ reply'.raised = None => Declared
          /\ ~Declared => /\ reply'.raised # None
                          /\ reply'.raised[1].type = "ValueError"
                          /\ reply'.ret = None
                          /\ clients' = clients ]_building

\* build failed on a provider without vision that was selected after
\* with_vision, and an earlier build had created a client
C22_Witness ==
    /\ reply.op = "build"
    /\ reply.raised # None
    /\ builder.obj.provider = "ollama"
    /\ builder.called = { "with_vision", "with_mcp", "provider" }
    /\ clients # << >>

\* the servers registered in the manager, in the order of the servers dict
Registered == [ i \in 1..Len(mgr.m.order) |-> mgr.m.servers[mgr.m.order[i]].server ]

\* the names whose connect() or cleanup() succeeded in the call that ends
\* in the next state
Succeeded == { name \in DOMAIN mgr'.last.outcome : mgr'.last.outcome[name] = "ok" }

\* C23: connect_all calls connect() on every registered server even when
\* earlier ones fail, never raises, and returns exactly the servers whose
\* connect() succeeded in that call; cleanup_all never raises, removes from
\* the connected set every name whose cleanup succeeded and keeps every name
\* whose cleanup failed; the connected set holds registered names only.
C23_ConnectAndCleanupAll ==
    /\ [](mgr.m.connected \subseteq DOMAIN mgr.m.servers)
    /\ [][ /\ mgr'.last.op = "connect_all" =>
                /\ mgr'.last.raised = None
                /\ mgr'.last.attempted = Registered
                /\ mgr'.last.ret # None
                /\ LET returned == mgr'.last.ret[1]
                   IN  /\ { returned[i] : i \in 1..Len(returned) }
                            = { mgr.m.servers[name].server : name \in Succeeded }
                       /\ Len(returned) = Cardinality(Succeeded)
           /\ mgr'.last.op = "cleanup_all" =>
                /\ mgr'.last.raised = None
                /\ mgr'.m.connected = mgr.m.connected \ Succeeded ]_mgr

\* connect_all went on to the second server after the first one failed, and
\* returned the second alone
C23_Witness ==
    /\ mgr.last.op = "connect_all"
    /\ Len(mgr.last.attempted) = 2
    /\ mgr.last.outcome[mgr.m.order[1]] = "Exception"
    /\ mgr.last.outcome[mgr.m.order[2]] = "ok"
    /\ mgr.last.ret = Some(<< mgr.m.servers[mgr.m.order[2]].server >>)

\* C29: get_connected_servers returns only server objects on which
\* connect() has succeeded and cleanup() has not succeeded since, also after
\* a connected name was registered again and after connect_all ran twice.
C29_ConnectedServersAreLive ==
    mgr.last.op = "get_connected_servers" =>
        \A server \in mgr.last.ret[1] : mgr.live[server]

====
